---- MODULE Spec2Model ----
(***************************************************************************)
(* UCSI protocol layer of embedded-usb-pd: the PPM state machine           *)
(* (src/src/ucsi/ppm/state_machine.rs) and the command codec               *)
(* (src/src/ucsi/mod.rs, src/src/ucsi/ppm, src/src/ucsi/lpm).              *)
(*                                                                         *)
(* Values wider than 31 bits are held in limbs: a u32 is a record          *)
(* [lo, hi] of two 16-bit halves, a [u8; N] is a sequence of bytes.        *)
(***************************************************************************)
EXTENDS Integers, Sequences, FiniteSets, TLC

VARIABLES
    state,       \* StateMachine.state
    prevState,   \* state() before the last call of consume
    lastInput,   \* the input of the last call of consume
    lastResult,  \* what the last call of consume returned
    trail,       \* what consume has returned since the machine was last in Idle(false)
    pc,          \* position of the codec run: "idle", "built", "encoded", "received",
                 \* "header", "decoded", "read", "context", "panicked"
    cmd,         \* the command handed to encode
    wire,        \* the bytes encode wrote
    decoded,     \* what decode_from_slice returned for wire
    response,    \* the response data handed to encode
    context,     \* the CommandType handed to the decode of response data
    cci,         \* the raw u32 of a Cci
    prevCci,     \* the raw u32 before the last setter call
    cciCalls,    \* the setter calls made on the Cci, the last one last
    sinceExecute,\* the outputs consume returned from the last ExecuteCommand on
    busyLine,    \* the hardware busy line: TRUE while it is asserted
    ackedEnable, \* the NotificationEnable of the last SetNotificationEnable command
                 \* that was executed and acknowledged since the last reset
    prevCall     \* the state and the kind of input of the call of consume before the last

vars == <<state, prevState, lastInput, lastResult, trail, pc, cmd, wire, decoded,
          response, context, cci, prevCci, cciCalls, sinceExecute, busyLine,
          ackedEnable, prevCall>>

ppmVars == <<state, prevState, lastInput, lastResult, trail>>

codecVars == <<pc, cmd, wire, decoded, response, context>>

cciVars == <<cci, prevCci, cciCalls>>

runVars == <<sinceExecute, busyLine, ackedEnable, prevCall>>

(***************************************************************************)
(* Bounds of the model                                                     *)
(***************************************************************************)
\* outputs remembered in trail (the first MaxTrail since Idle(false))
MaxTrail == 3

(***************************************************************************)
(* Fixed-width integers and bit fields (bitfield crate accessors)          *)
(***************************************************************************)
RECURSIVE Pow2(_)
Pow2(n) == IF n = 0 THEN 1 ELSE 2 * Pow2(n - 1)

\* getter of a field msb..lsb of an integer storage
GetBits(raw, lsb, msb) == (raw \div Pow2(lsb)) % Pow2(msb - lsb + 1)

\* setter of a field msb..lsb: the value is masked to the field's width
SetBits(raw, lsb, msb, v) ==
    raw - GetBits(raw, lsb, msb) * Pow2(lsb) + (v % Pow2(msb - lsb + 1)) * Pow2(lsb)

BoolBit(b) == IF b THEN 1 ELSE 0

U32(lo, hi) == [lo |-> lo, hi |-> hi]

\* getter of a field of a u32 storage that lies in one 16-bit half
GetBits32(raw, lsb, msb) ==
    IF msb < 16 THEN GetBits(raw.lo, lsb, msb) ELSE GetBits(raw.hi, lsb - 16, msb - 16)

SetBits32(raw, lsb, msb, v) ==
    IF msb < 16 THEN U32(SetBits(raw.lo, lsb, msb, v), raw.hi)
    ELSE U32(raw.lo, SetBits(raw.hi, lsb - 16, msb - 16, v))

\* fixed-int little-endian encodings of bincode
EncodeU8(v) == <<v>>

EncodeU16(v) == <<v % 256, v \div 256>>

EncodeU32(v) == EncodeU16(v.lo) \o EncodeU16(v.hi)

DecodeU16(bytes) == bytes[1] + 256 * bytes[2]

DecodeU32(bytes) == U32(bytes[1] + 256 * bytes[2], bytes[3] + 256 * bytes[4])

Zeros(n) == [i \in 1..n |-> 0]

\* bit i of a [u8] storage: bit 0 is the least significant bit of byte 0
BitAt(bytes, i) == (bytes[(i \div 8) + 1] \div Pow2(i % 8)) % 2

RECURSIVE GetBitsBytes(_, _, _)
GetBitsBytes(bytes, lsb, msb) ==
    IF msb < lsb THEN 0
    ELSE BitAt(bytes, lsb) + 2 * GetBitsBytes(bytes, lsb + 1, msb)

\* setter of a field of a [u8] storage: every byte takes the bits of the value
\* that fall into it
SetBitsBytes(bytes, lsb, msb, v) ==
    [k \in 1..Len(bytes) |->
        LET first == IF lsb > 8 * (k - 1) THEN lsb ELSE 8 * (k - 1)
            last == IF msb < 8 * k - 1 THEN msb ELSE 8 * k - 1
        IN  IF first > last THEN bytes[k]
            ELSE SetBits(bytes[k], first - 8 * (k - 1), last - 8 * (k - 1),
                         v \div Pow2(first - lsb))]

(***************************************************************************)
(* Opcode table (ucsi::CommandType)                                        *)
(***************************************************************************)
COMMAND_LEN == 8

CommandTypes ==
    {"PpmReset", "Cancel", "ConnectorReset", "AckCcCi", "SetNotificationEnable",
     "GetCapability", "GetConnectorCapability", "SetCcom", "SetUor", "SetPdm",
     "SetPdr", "GetAlternateModes", "GetCamSupported", "GetCurrentCam", "SetNewCam",
     "GetPdos", "GetCableProperty", "GetConnectorStatus", "GetErrorStatus",
     "SetPowerLevel", "GetPdMessage", "GetAttentionVdo", "GetCamCs",
     "LpmFwUpdateRequest", "SecurityRequest", "SetRetimerMode", "SetSinkPath",
     "SetPdos", "ReadPowerLevel", "ChunkingSupport", "SetUsb", "GetLpmPpmInfo"}

\* `command as u8`: the discriminant of the enum
CommandTypeAsU8(t) ==
    CASE t = "PpmReset" -> 1
      [] t = "Cancel" -> 2
      [] t = "ConnectorReset" -> 3
      [] t = "AckCcCi" -> 4
      [] t = "SetNotificationEnable" -> 5
      [] t = "GetCapability" -> 6
      [] t = "GetConnectorCapability" -> 7
      [] t = "SetCcom" -> 8
      [] t = "SetUor" -> 9
      [] t = "SetPdm" -> 10
      [] t = "SetPdr" -> 11
      [] t = "GetAlternateModes" -> 12
      [] t = "GetCamSupported" -> 13
      [] t = "GetCurrentCam" -> 14
      [] t = "SetNewCam" -> 15
      [] t = "GetPdos" -> 16
      [] t = "GetCableProperty" -> 17
      [] t = "GetConnectorStatus" -> 18
      [] t = "GetErrorStatus" -> 19
      [] t = "SetPowerLevel" -> 20
      [] t = "GetPdMessage" -> 21
      [] t = "GetAttentionVdo" -> 22
      [] t = "GetCamCs" -> 24
      [] t = "LpmFwUpdateRequest" -> 25
      [] t = "SecurityRequest" -> 26
      [] t = "SetRetimerMode" -> 27
      [] t = "SetSinkPath" -> 28
      [] t = "SetPdos" -> 29
      [] t = "ReadPowerLevel" -> 30
      [] t = "ChunkingSupport" -> 31
      [] t = "SetUsb" -> 33
      [] t = "GetLpmPpmInfo" -> 34

\* TryFrom<u8> for CommandType: Ok(type) or Err(InvalidCommandType(value))
CommandTypeTryFrom(value) ==
    CASE value = 1 -> [value |-> "PpmReset", ok |-> TRUE]
      [] value = 2 -> [value |-> "Cancel", ok |-> TRUE]
      [] value = 3 -> [value |-> "ConnectorReset", ok |-> TRUE]
      [] value = 4 -> [value |-> "AckCcCi", ok |-> TRUE]
      [] value = 5 -> [value |-> "SetNotificationEnable", ok |-> TRUE]
      [] value = 6 -> [value |-> "GetCapability", ok |-> TRUE]
      [] value = 7 -> [value |-> "GetConnectorCapability", ok |-> TRUE]
      [] value = 8 -> [value |-> "SetCcom", ok |-> TRUE]
      [] value = 9 -> [value |-> "SetUor", ok |-> TRUE]
      [] value = 10 -> [value |-> "SetPdm", ok |-> TRUE]
      [] value = 11 -> [value |-> "SetPdr", ok |-> TRUE]
      [] value = 12 -> [value |-> "GetAlternateModes", ok |-> TRUE]
      [] value = 13 -> [value |-> "GetCamSupported", ok |-> TRUE]
      [] value = 14 -> [value |-> "GetCurrentCam", ok |-> TRUE]
      [] value = 15 -> [value |-> "SetNewCam", ok |-> TRUE]
      [] value = 16 -> [value |-> "GetPdos", ok |-> TRUE]
      [] value = 17 -> [value |-> "GetCableProperty", ok |-> TRUE]
      [] value = 18 -> [value |-> "GetConnectorStatus", ok |-> TRUE]
      [] value = 19 -> [value |-> "GetErrorStatus", ok |-> TRUE]
      [] value = 20 -> [value |-> "SetPowerLevel", ok |-> TRUE]
      [] value = 21 -> [value |-> "GetPdMessage", ok |-> TRUE]
      [] value = 22 -> [value |-> "GetAttentionVdo", ok |-> TRUE]
      [] value = 24 -> [value |-> "GetCamCs", ok |-> TRUE]
      [] value = 25 -> [value |-> "LpmFwUpdateRequest", ok |-> TRUE]
      [] value = 26 -> [value |-> "SecurityRequest", ok |-> TRUE]
      [] value = 27 -> [value |-> "SetRetimerMode", ok |-> TRUE]
      [] value = 28 -> [value |-> "SetSinkPath", ok |-> TRUE]
      [] value = 29 -> [value |-> "SetPdos", ok |-> TRUE]
      [] value = 30 -> [value |-> "ReadPowerLevel", ok |-> TRUE]
      [] value = 31 -> [value |-> "ChunkingSupport", ok |-> TRUE]
      [] value = 33 -> [value |-> "SetUsb", ok |-> TRUE]
      [] value = 34 -> [value |-> "GetLpmPpmInfo", ok |-> TRUE]
      [] OTHER -> [ok |-> FALSE, invalid |-> value]

(***************************************************************************)
(* Commands (ucsi::Command, ppm::Command, lpm::Command)                    *)
(***************************************************************************)
\* ack_cc_ci::Ack wraps AckRaw(u8): connector_change is bit 0, command_complete bit 1
AckConnectorChange(ack) == GetBits(ack, 0, 0) = 1

AckCommandComplete(ack) == GetBits(ack, 1, 1) = 1

PpmReset == [class |-> "Ppm", type |-> "PpmReset"]

Cancel == [class |-> "Ppm", type |-> "Cancel"]

AckCcCi(ack) == [ack |-> ack, class |-> "Ppm", type |-> "AckCcCi"]

SetNotificationEnable(ne) ==
    [class |-> "Ppm", type |-> "SetNotificationEnable", notification_enable |-> ne]

GetCapability == [class |-> "Ppm", type |-> "GetCapability"]

\* lpm::Command::new(port, operation)
LpmCommandNew(port, operation) == [class |-> "Lpm", port |-> port, operation |-> operation]

\* CommandData variants without arguments
NoArgOperations ==
    {"ConnectorReset", "GetConnectorStatus", "GetConnectorCapability", "GetErrorStatus",
     "GetCamSupported", "GetCurrentCam", "GetCableProperty"}

NoArgs(type) == [type |-> type]

\* set_ccom::Args, set_uor::Args, set_pdr::Args: a u16 bit field,
\* connector number in bits 6..0 and the first flag in bit 7
Raw16Operations == {"SetCcom", "SetUor", "SetPdr"}

Raw16Args(type, raw) == [type |-> type, raw16 |-> raw]

Raw16ConnectorNumber(raw) == GetBits(raw, 0, 6)

Raw16SetConnectorNumber(raw, n) == SetBits(raw, 0, 6, n)

\* set_new_cam::Args: plain fields
SetNewCamArgs(connector_number, enter, am_offset, am_specific) ==
    [type |-> "SetNewCam", connector_number |-> connector_number, enter |-> enter,
     am_offset |-> am_offset, am_specific |-> am_specific]

\* set_power_level::Args: a bit field over [u8; 6]
SetPowerLevelArgs(raw) == [type |-> "SetPowerLevel", raw48 |-> raw]

SetPowerLevelConnectorNumber(raw) == GetBitsBytes(raw, 0, 6)

SetPowerLevelTypeCCurrent(raw) == GetBitsBytes(raw, 16, 18)

\* get_alternate_modes::Args: a u32 bit field, recipient in bits 2..0,
\* connector number in bits 14..8
GetAlternateModesArgs(raw) == [type |-> "GetAlternateModes", raw32 |-> raw]

GetAlternateModesRecipient(raw) == GetBits32(raw, 0, 2)

GetAlternateModesConnectorNumber(raw) == GetBits32(raw, 8, 14)

\* get_pdos::Args: a u32 bit field, connector number in bits 6..0, partner in bit 7
GetPdosArgs(raw) == [type |-> "GetPdos", raw32 |-> raw]

GetPdosConnectorNumber(raw) == GetBits32(raw, 0, 6)

GetPdosSourceCapabilityType(raw) == GetBits32(raw, 19, 20)

\* ppm::Command::command_type / lpm::CommandData::command_type
CommandType(c) == IF c.class = "Ppm" THEN c.type ELSE c.operation.type

(***************************************************************************)
(* Command values the model draws its inputs from: every command type,     *)
(* connector numbers 0, 1 and 127, every argument field at its least and   *)
(* at its greatest value                                                   *)
(***************************************************************************)
Ports == {0, 1, 127}

AckValues == {0, 1, 2, 3, 253, 255}

NotificationValues == {U32(0, 0), U32(1, 0), U32(65535, 65535)}

PpmCommands ==
    {PpmReset, Cancel, GetCapability}
    \cup {AckCcCi(a) : a \in AckValues}
    \cup {SetNotificationEnable(ne) : ne \in NotificationValues}

\* argument values as new/default and the setters leave them, for connector p
OperationsFor(p) ==
    {NoArgs(t) : t \in NoArgOperations}
    \cup {Raw16Args(t, Raw16SetConnectorNumber(f, p)) :
            t \in Raw16Operations, f \in {0, 128, 65408}}
    \cup {SetNewCamArgs(p, FALSE, 0, U32(0, 0)),
          SetNewCamArgs(p, TRUE, 255, U32(65535, 65535))}
    \cup {SetPowerLevelArgs(SetBitsBytes(b, 0, 6, p)) :
            b \in {Zeros(6), <<128, 255, 251, 255, 255, 255>>}}
    \cup {GetAlternateModesArgs(SetBits32(r, 8, 14, p)) :
            r \in {U32(0, 0), U32(65531, 65535)}}
    \cup {GetPdosArgs(SetBits32(r, 0, 6, p)) :
            r \in {U32(0, 0), U32(65535, 65527)}}

LpmCommands == UNION {{LpmCommandNew(p, op) : op \in OperationsFor(p)} : p \in Ports}

Commands == PpmCommands \cup LpmCommands

(***************************************************************************)
(* PPM state machine (ucsi::ppm::state_machine)                            *)
(***************************************************************************)
Idle(notified) == [notified |-> notified, kind |-> "Idle"]

Busy(notified) == [notified |-> notified, kind |-> "Busy"]

ProcessingCommand == [kind |-> "ProcessingCommand"]

WaitForCommandCompleteAck == [kind |-> "WaitForCommandCompleteAck"]

States ==
    {Idle(FALSE), Idle(TRUE), Busy(FALSE), Busy(TRUE), ProcessingCommand,
     WaitForCommandCompleteAck}

\* Input
InputCommand(c) == [cmd |-> c, kind |-> "Command"]

CommandComplete == [kind |-> "CommandComplete"]

BusyChanged == [kind |-> "BusyChanged"]

Inputs == {InputCommand(c) : c \in Commands} \cup {CommandComplete, BusyChanged}

\* Output
ExecuteCommand(c) == [cmd |-> c, kind |-> "ExecuteCommand"]

OpmNotifyCommandComplete == [kind |-> "OpmNotifyCommandComplete"]

AckComplete(ack) == [ack |-> ack, kind |-> "AckComplete"]

ResetComplete == [kind |-> "ResetComplete"]

OpmNotifyBusy == [kind |-> "OpmNotifyBusy"]

\* Option::None
None == [kind |-> "None"]

\* the (next_state, output) pair of a match arm: consume stores next_state and
\* returns Ok(output)
Transition(next_state, output) ==
    [ok |-> TRUE, next_state |-> next_state, output |-> output, matched |-> TRUE]

\* faulty variant: the error path stores Idle(false) before it returns
InvalidTransitionMoves(s, input) ==
    [ok |-> FALSE, next_state |-> [notified |-> FALSE, kind |-> "Idle"], matched |-> TRUE,
     error |-> [state |-> s, input |-> input]]

\* return Err(InvalidTransition { state: self.state, input }): self.state is not assigned
InvalidTransition(s, input) ==
    [ok |-> FALSE, next_state |-> s, matched |-> TRUE,
     error |-> [state |-> s, input |-> input]]

\* the arm does not match: the match goes on to the next arm
NoMatch == [matched |-> FALSE]

IsCommand(input, type) ==
    input.kind = "Command" /\ input.cmd.class = "Ppm" /\ input.cmd.type = type

\* (_, Command(PpmReset))
ResetArm(s, input) ==
    IF IsCommand(input, "PpmReset") THEN Transition(Idle(FALSE), ResetComplete)
    ELSE NoMatch

\* faulty variant: Idle(false) admits every command
IdleFalseArmsAnyCommand(s, input) ==
    IF s = Idle(FALSE) /\ input.kind = "Command"
    THEN Transition(ProcessingCommand, ExecuteCommand(input.cmd))
    ELSE IF s = Idle(FALSE) /\ input = BusyChanged THEN Transition(Busy(FALSE), None)
    ELSE NoMatch

\* faulty variant: the command admitted in Idle(false) is not handed out for execution
IdleFalseArmsNoOutput(s, input) ==
    IF s = Idle(FALSE) /\ IsCommand(input, "SetNotificationEnable")
    THEN Transition(ProcessingCommand, None)
    ELSE IF s = Idle(FALSE) /\ input = BusyChanged THEN Transition(Busy(FALSE), None)
    ELSE NoMatch

\* (Idle(false), Command(SetNotificationEnable(_))), (Idle(false), BusyChanged)
IdleFalseArms(s, input) ==
    IF s = Idle(FALSE) /\ IsCommand(input, "SetNotificationEnable")
    THEN Transition(ProcessingCommand, ExecuteCommand(input.cmd))
    ELSE IF s = Idle(FALSE) /\ input = BusyChanged THEN Transition(Busy(FALSE), None)
    ELSE NoMatch

\* faulty variant: Busy(false) notifies the OPM as Busy(true) does
BusyArmsNotifyAlways(s, input) ==
    IF s.kind = "Busy" /\ input = BusyChanged THEN Transition(Idle(s.notified), None)
    ELSE IF s.kind = "Busy" /\ input = CommandComplete THEN Transition(s, OpmNotifyBusy)
    ELSE NoMatch

\* faulty variant: leaving Busy drops the notification flag it carried and returns Idle(true)
BusyArmsForgetFlag(s, input) ==
    IF s.kind = "Busy" /\ input = BusyChanged THEN Transition(Idle(TRUE), None)
    ELSE IF s = Busy(FALSE) /\ input = CommandComplete THEN Transition(Busy(FALSE), None)
    ELSE IF s = Busy(TRUE) /\ input = CommandComplete
    THEN Transition(Busy(TRUE), OpmNotifyBusy)
    ELSE NoMatch

\* (Busy(n), BusyChanged), (Busy(false), CommandComplete), (Busy(true), CommandComplete)
BusyArms(s, input) ==
    IF s.kind = "Busy" /\ input = BusyChanged THEN Transition(Idle(s.notified), None)
    ELSE IF s = Busy(FALSE) /\ input = CommandComplete THEN Transition(Busy(FALSE), None)
    ELSE IF s = Busy(TRUE) /\ input = CommandComplete
    THEN Transition(Busy(TRUE), OpmNotifyBusy)
    ELSE NoMatch

\* faulty variant: the AckCcCi arm of Idle(true) is missing
IdleTrueArmsNoAckCheck(s, input) ==
    IF s = Idle(TRUE) /\ input = BusyChanged THEN Transition(Busy(TRUE), None)
    ELSE IF s = Idle(TRUE) /\ input.kind = "Command"
    THEN Transition(ProcessingCommand, ExecuteCommand(input.cmd))
    ELSE NoMatch

\* faulty variant: going busy from Idle(true) loses the notification flag
IdleTrueArmsBusyDropsFlag(s, input) ==
    IF s = Idle(TRUE) /\ input = BusyChanged THEN Transition(Busy(FALSE), None)
    ELSE IF s = Idle(TRUE) /\ IsCommand(input, "AckCcCi")
    THEN IF AckCommandComplete(input.cmd.ack) THEN InvalidTransition(s, input)
         ELSE Transition(ProcessingCommand, ExecuteCommand(input.cmd))
    ELSE IF s = Idle(TRUE) /\ input.kind = "Command"
    THEN Transition(ProcessingCommand, ExecuteCommand(input.cmd))
    ELSE NoMatch

\* (Idle(true), BusyChanged), (Idle(true), Command(AckCcCi(args))), (Idle(true), Command(cmd))
IdleTrueArms(s, input) ==
    IF s = Idle(TRUE) /\ input = BusyChanged THEN Transition(Busy(TRUE), None)
    ELSE IF s = Idle(TRUE) /\ IsCommand(input, "AckCcCi")
    THEN IF AckCommandComplete(input.cmd.ack) THEN InvalidTransition(s, input)
         ELSE Transition(ProcessingCommand, ExecuteCommand(input.cmd))
    ELSE IF s = Idle(TRUE) /\ input.kind = "Command"
    THEN Transition(ProcessingCommand, ExecuteCommand(input.cmd))
    ELSE NoMatch

\* faulty variant: a command is admitted while another one is in flight
ProcessingCommandArmAdmits(s, input) ==
    IF s = ProcessingCommand /\ (input = CommandComplete \/ IsCommand(input, "Cancel"))
    THEN Transition(WaitForCommandCompleteAck, OpmNotifyCommandComplete)
    ELSE IF s = ProcessingCommand /\ input.kind = "Command"
    THEN Transition(ProcessingCommand, ExecuteCommand(input.cmd))
    ELSE NoMatch

\* faulty variant: only CommandComplete ends the command in flight
ProcessingCommandArmNoCancel(s, input) ==
    IF s = ProcessingCommand /\ input = CommandComplete
    THEN Transition(WaitForCommandCompleteAck, OpmNotifyCommandComplete)
    ELSE NoMatch

\* faulty variant: a busy line change is taken while a command is in flight
ProcessingCommandArmBusy(s, input) ==
    IF s = ProcessingCommand /\ (input = CommandComplete \/ IsCommand(input, "Cancel"))
    THEN Transition(WaitForCommandCompleteAck, OpmNotifyCommandComplete)
    ELSE IF s = ProcessingCommand /\ input = BusyChanged THEN Transition(Busy(TRUE), None)
    ELSE NoMatch

\* (ProcessingCommand, CommandComplete | Command(Cancel))
ProcessingCommandArm(s, input) ==
    IF s = ProcessingCommand /\ (input = CommandComplete \/ IsCommand(input, "Cancel"))
    THEN Transition(WaitForCommandCompleteAck, OpmNotifyCommandComplete)
    ELSE NoMatch

\* faulty variant: the acknowledgement of the completion is never taken
WaitForCommandCompleteAckArmDeaf(s, input) ==
    IF s = WaitForCommandCompleteAck /\ IsCommand(input, "AckCcCi")
    THEN InvalidTransition(s, input)
    ELSE NoMatch

\* faulty variant: every AckCcCi is taken as the ack of the completion
WaitForCommandCompleteAckArmAnyAck(s, input) ==
    IF s = WaitForCommandCompleteAck /\ IsCommand(input, "AckCcCi")
    THEN Transition(Idle(TRUE), AckComplete(input.cmd.ack))
    ELSE NoMatch

\* faulty variant: a second end of the command in flight is notified again
WaitForCommandCompleteAckArmRenotifies(s, input) ==
    IF s = WaitForCommandCompleteAck /\ IsCommand(input, "AckCcCi")
    THEN IF AckCommandComplete(input.cmd.ack)
         THEN Transition(Idle(TRUE), AckComplete(input.cmd.ack))
         ELSE InvalidTransition(s, input)
    ELSE IF s = WaitForCommandCompleteAck
            /\ (input = CommandComplete \/ IsCommand(input, "Cancel"))
    THEN Transition(WaitForCommandCompleteAck, OpmNotifyCommandComplete)
    ELSE NoMatch

\* (WaitForCommandCompleteAck, Command(AckCcCi(args)))
WaitForCommandCompleteAckArm(s, input) ==
    IF s = WaitForCommandCompleteAck /\ IsCommand(input, "AckCcCi")
    THEN IF AckCommandComplete(input.cmd.ack)
         THEN Transition(Idle(TRUE), AckComplete(input.cmd.ack))
         ELSE InvalidTransition(s, input)
    ELSE NoMatch

\* the first arm that matches, in the order of the match; `_` is the last one
RECURSIVE FirstMatch(_, _, _)
FirstMatch(arms, s, input) ==
    IF arms = <<>> THEN InvalidTransition(s, input)
    ELSE IF Head(arms).matched THEN Head(arms)
    ELSE FirstMatch(Tail(arms), s, input)

\* faulty variant: the reset arm is the last arm of the match instead of the first
ConsumeResetLast(s, input) ==
    FirstMatch(<<IdleFalseArms(s, input), BusyArms(s, input), IdleTrueArms(s, input),
                 ProcessingCommandArm(s, input), WaitForCommandCompleteAckArm(s, input),
                 ResetArm(s, input)>>, s, input)

\* StateMachine::consume: the state it leaves and the Result it returns
Consume(s, input) ==
    FirstMatch(<<ResetArm(s, input), IdleFalseArms(s, input), BusyArms(s, input),
                 IdleTrueArms(s, input), ProcessingCommandArm(s, input),
                 WaitForCommandCompleteAckArm(s, input)>>, s, input)

(***************************************************************************)
(* The machine in use: one action per kind of input handed to consume      *)
(***************************************************************************)
NoCall == [kind |-> "NoCall"]

NoCommand == [class |-> "None"]

NoResponse == [kind |-> "NoResponse"]

NoContext == "NoContext"

NotDecoded == [ok |-> FALSE, error |-> [kind |-> "NotDecoded"]]

\* Result<Option<Output>, InvalidTransition> as returned to the caller
ResultOf(r) ==
    IF r.ok THEN [ok |-> TRUE, output |-> r.output] ELSE [ok |-> FALSE, error |-> r.error]

Ok(output) == [ok |-> TRUE, output |-> output]

\* what trail keeps of an output: its variant and, of ExecuteCommand, the type
\* of the command
Returned(output) ==
    IF output.kind = "ExecuteCommand" THEN <<output.kind, CommandType(output.cmd)>>
    ELSE <<output.kind, "">>

TrailAfter(r) ==
    IF r.next_state = Idle(FALSE) THEN <<>>
    ELSE IF r.ok /\ r.output # None /\ Len(trail) < MaxTrail
    THEN Append(trail, Returned(r.output))
    ELSE trail

ConsumeStep(input) ==
    LET r == Consume(state, input) IN
    /\ pc = "idle"
    /\ state' = r.next_state
    /\ prevState' = state
    /\ lastInput' = input
    /\ lastResult' = ResultOf(r)
    /\ trail' = TrailAfter(r)
    /\ UNCHANGED <<codecVars, cciVars, runVars>>

ConsumeCommand == \E c \in Commands : ConsumeStep(InputCommand(c))

ConsumeCommandComplete == ConsumeStep(CommandComplete)

ConsumeBusyChanged == ConsumeStep(BusyChanged)

\* Cci::default()
CciDefault == U32(0, 0)

\* a Cci no setter has been called on
InitCci ==
    /\ cci = CciDefault
    /\ prevCci = CciDefault
    /\ cciCalls = <<>>

\* no SetNotificationEnable command acknowledged
NoEnable == [kind |-> "NoEnable"]

\* a machine no input was handed to, the busy line deasserted
InitRun ==
    /\ sinceExecute = <<>>
    /\ busyLine = FALSE
    /\ ackedEnable = NoEnable
    /\ prevCall = NoCall

\* StateMachine::new()
InitPpm ==
    /\ state = Idle(FALSE)
    /\ prevState = Idle(FALSE)
    /\ lastInput = NoCall
    /\ lastResult = Ok(None)
    /\ trail = <<>>

Init ==
    /\ InitPpm
    /\ InitRun
    /\ InitCci
    /\ pc = "idle"
    /\ cmd = NoCommand
    /\ wire = <<>>
    /\ decoded = NotDecoded
    /\ response = NoResponse
    /\ context = NoContext

Next == ConsumeCommand \/ ConsumeCommandComplete \/ ConsumeBusyChanged

Spec == Init /\ [][Next]_vars

Called == lastInput # NoCall

(***************************************************************************)
(* Properties of the PPM state machine                                     *)
(***************************************************************************)
LastIsCommand(type) == Called /\ IsCommand(lastInput, type)

Rejected == Called /\ ~lastResult.ok

\* the call was refused and left the state as it was
RejectedUnchanged == Rejected /\ state = prevState

\* bit 1 of the ack byte of the last command, read off the byte
LastAckHasCommandCompleteBit == (lastInput.cmd.ack \div 2) % 2 = 1

LastAckHasConnectorChangeBit == lastInput.cmd.ack % 2 = 1

\* C1: from every state, consume(Command(PpmReset)) returns
\* Ok(Some(ResetComplete)) and leaves the machine in Idle(false); the reset
\* rule wins over every other rule (in Idle(true) it is not executed as an
\* ordinary command).
C1_UniversalReset ==
    LastIsCommand("PpmReset") => (lastResult = Ok(ResetComplete) /\ state = Idle(FALSE))

\* a reset consumed in Busy(true)
C1_Witness == LastIsCommand("PpmReset") /\ prevState = Busy(TRUE) /\ state = Idle(FALSE)

\* C2: whenever consume returns Err, state() is what it was before the call
\* and the InvalidTransition carries that state and the offered input; an
\* accepted call that neither moves the machine nor returns an output is
\* the listed pair (Busy(false), CommandComplete), never a refused input.
C2_ErrLeavesState ==
    /\ Rejected =>
         /\ state = prevState
         /\ lastResult.error.state = prevState
         /\ lastResult.error.input = lastInput
    /\ (Called /\ lastResult = Ok(None) /\ state = prevState) =>
         (prevState = Busy(FALSE) /\ lastInput = CommandComplete)

\* an LPM command refused in WaitForCommandCompleteAck
C2_Witness ==
    /\ Rejected
    /\ prevState = WaitForCommandCompleteAck
    /\ lastInput.kind = "Command"
    /\ lastInput.cmd.class = "Lpm"

\* C3: AckCcCi with the command-complete bit set is accepted only in
\* WaitForCommandCompleteAck, where it leads to Idle(true) and returns
\* AckComplete with the ack bits of the command; in every other state it is
\* refused.
C3_AckCommandComplete ==
    (LastIsCommand("AckCcCi") /\ LastAckHasCommandCompleteBit) =>
        IF prevState = WaitForCommandCompleteAck
        THEN state = Idle(TRUE) /\ lastResult = Ok(AckComplete(lastInput.cmd.ack))
        ELSE RejectedUnchanged

\* the ack with both bits set, accepted in WaitForCommandCompleteAck
C3_Witness ==
    /\ LastIsCommand("AckCcCi")
    /\ lastInput.cmd.ack = 3
    /\ prevState = WaitForCommandCompleteAck
    /\ state = Idle(TRUE)

\* C4: from Idle(false), SetNotificationEnable leads to ProcessingCommand with
\* ExecuteCommand, BusyChanged leads to Busy(false) without output, and
\* CommandComplete and every other command (AckCcCi, Cancel, GetCapability,
\* every LPM command) is refused with the state left at Idle(false).
\* PpmReset is the universal rule of C1.
C4_IdleFalseGating ==
    (Called /\ prevState = Idle(FALSE)) =>
        IF IsCommand(lastInput, "SetNotificationEnable")
        THEN state = ProcessingCommand /\ lastResult = Ok(ExecuteCommand(lastInput.cmd))
        ELSE IF lastInput = BusyChanged
        THEN state = Busy(FALSE) /\ lastResult = Ok(None)
        ELSE IF IsCommand(lastInput, "PpmReset") THEN TRUE
        ELSE Rejected /\ state = Idle(FALSE)

\* GetCapability refused in Idle(false)
C4_Witness ==
    /\ LastIsCommand("GetCapability")
    /\ prevState = Idle(FALSE)
    /\ state = Idle(FALSE)
    /\ Rejected

\* C5 as claimed: Cancel is refused in every state but ProcessingCommand.
C5_CancelOnlyWhileProcessing ==
    (LastIsCommand("Cancel") /\ prevState # ProcessingCommand) => RejectedUnchanged

\* C5 as amended: Cancel is refused, the state unchanged, in Idle(false),
\* Busy(false), Busy(true) and WaitForCommandCompleteAck; in Idle(true) it is
\* admitted like any other command (ExecuteCommand(Cancel), ProcessingCommand);
\* in ProcessingCommand it ends the command in flight.
C5_CancelAmended ==
    LastIsCommand("Cancel") =>
        IF prevState = ProcessingCommand
        THEN state = WaitForCommandCompleteAck /\ lastResult = Ok(OpmNotifyCommandComplete)
        ELSE IF prevState = Idle(TRUE)
        THEN state = ProcessingCommand /\ lastResult = Ok(ExecuteCommand(Cancel))
        ELSE RejectedUnchanged

\* Cancel admitted in Idle(true)
C5_Witness ==
    LastIsCommand("Cancel") /\ prevState = Idle(TRUE) /\ state = ProcessingCommand

\* The transition table of the design, row by row: the (to, output) pairs
\* listed for a state and an input other than PpmReset.
Row(to, output) == [output |-> output, to |-> to]

HasCommandCompleteBit(input) ==
    IsCommand(input, "AckCcCi") /\ (input.cmd.ack \div 2) % 2 = 1

\* a row applies when its condition holds
When(cond, to, output) == IF cond THEN {Row(to, output)} ELSE {}

TableRows(s, input) ==
    When(s = Idle(FALSE) /\ IsCommand(input, "SetNotificationEnable"),
         ProcessingCommand, ExecuteCommand(input.cmd))
    \cup When(s = Idle(FALSE) /\ input = BusyChanged, Busy(FALSE), None)
    \cup When(s = Busy(FALSE) /\ input = BusyChanged, Idle(FALSE), None)
    \cup When(s = Busy(TRUE) /\ input = BusyChanged, Idle(TRUE), None)
    \cup When(s = Busy(FALSE) /\ input = CommandComplete, Busy(FALSE), None)
    \cup When(s = Busy(TRUE) /\ input = CommandComplete, Busy(TRUE), OpmNotifyBusy)
    \cup When(s = Idle(TRUE) /\ input = BusyChanged, Busy(TRUE), None)
    \cup When(s = Idle(TRUE) /\ input.kind = "Command" /\ ~HasCommandCompleteBit(input),
              ProcessingCommand, ExecuteCommand(input.cmd))
    \cup When(s = ProcessingCommand
                /\ (input = CommandComplete \/ IsCommand(input, "Cancel")),
              WaitForCommandCompleteAck, OpmNotifyCommandComplete)
    \cup When(s = WaitForCommandCompleteAck /\ HasCommandCompleteBit(input),
              Idle(TRUE), AckComplete(input.cmd.ack))

\* the table with the universal reset rule put before it
Listed(s, input) ==
    IF IsCommand(input, "PpmReset") THEN {Row(Idle(FALSE), ResetComplete)}
    ELSE TableRows(s, input)

\* C6: for every state and input consume does what the transition table and
\* the universal reset rule say: a listed pair is accepted with the listed
\* next state and output, every pair not listed returns
\* Err(InvalidTransition{state, input}) and leaves the state.
C6_TableRefinement ==
    Called =>
        IF Listed(prevState, lastInput) = {}
        THEN /\ RejectedUnchanged
             /\ lastResult.error = [state |-> prevState, input |-> lastInput]
        ELSE /\ lastResult.ok
             /\ Listed(prevState, lastInput) = {Row(state, lastResult.output)}

\* a pair that is not listed: BusyChanged while a command is processed
C6_Witness ==
    /\ prevState = ProcessingCommand
    /\ lastInput = BusyChanged
    /\ Rejected
    /\ Listed(prevState, lastInput) = {}

\* the first three outputs since the machine left Idle(false) are the
\* execution of a SetNotificationEnable command, its completion and its ack
EnabledThroughCommand ==
    /\ Len(trail) >= 3
    /\ trail[1] = <<"ExecuteCommand", "SetNotificationEnable">>
    /\ trail[2] = <<"OpmNotifyCommandComplete", "">>
    /\ trail[3] = <<"AckComplete", "">>

NotificationsEnabled(s) == s \in {Idle(TRUE), Busy(TRUE)}

\* C7: the machine never steps from Idle(false) or Busy(false) straight into
\* Idle(true) or Busy(true), and whenever it is in Idle(true) or Busy(true)
\* it has, since it was last in Idle(false), returned ExecuteCommand for a
\* SetNotificationEnable command, then OpmNotifyCommandComplete, then
\* AckComplete.
C7_EnableThroughProcessing ==
    /\ (Called /\ prevState \in {Idle(FALSE), Busy(FALSE)}) => ~NotificationsEnabled(state)
    /\ NotificationsEnabled(state) => EnabledThroughCommand

\* Busy(true) reached
C7_Witness == state = Busy(TRUE) /\ EnabledThroughCommand

\* C8: in ProcessingCommand, CommandComplete and Cancel each lead to
\* WaitForCommandCompleteAck with OpmNotifyCommandComplete, PpmReset leads to
\* Idle(false), and every other command and BusyChanged are refused and
\* leave the machine in ProcessingCommand; nothing else moves it.
C8_ProcessingUntilComplete ==
    (Called /\ prevState = ProcessingCommand) =>
        IF lastInput = CommandComplete \/ IsCommand(lastInput, "Cancel")
        THEN state = WaitForCommandCompleteAck /\ lastResult = Ok(OpmNotifyCommandComplete)
        ELSE IF IsCommand(lastInput, "PpmReset") THEN state = Idle(FALSE)
        ELSE Rejected /\ state = ProcessingCommand

\* a second command refused while one is in flight
C8_Witness ==
    /\ prevState = ProcessingCommand
    /\ state = ProcessingCommand
    /\ lastInput.kind = "Command"
    /\ Rejected

\* C9: AckCcCi with the connector-change bit set and the command-complete bit
\* clear is accepted in Idle(true), leading to ProcessingCommand and returning
\* ExecuteCommand with that command, and is refused in
\* WaitForCommandCompleteAck, the state left there.
C9_AckConnectorChange ==
    (LastIsCommand("AckCcCi") /\ LastAckHasConnectorChangeBit
        /\ ~LastAckHasCommandCompleteBit) =>
        /\ prevState = Idle(TRUE) =>
             (state = ProcessingCommand /\ lastResult = Ok(ExecuteCommand(lastInput.cmd)))
        /\ prevState = WaitForCommandCompleteAck =>
             (Rejected /\ state = WaitForCommandCompleteAck)

\* the connector-change ack refused in WaitForCommandCompleteAck
C9_Witness ==
    /\ LastIsCommand("AckCcCi")
    /\ lastInput.cmd.ack = 1
    /\ prevState = WaitForCommandCompleteAck
    /\ state = WaitForCommandCompleteAck
    /\ Rejected

(***************************************************************************)
(* Command codec: bincode with fixed-width little-endian integers          *)
(***************************************************************************)
\* DecodeError::UnexpectedEnd: the slice holds fewer bytes than the read asks for
UnexpectedEnd == [kind |-> "UnexpectedEnd"]

\* DecodeError::UnexpectedVariant { type_name, allowed, found }; allowed is held
\* as the set of the values it admits
UnexpectedVariant(type_name, allowed, found) ==
    [kind |-> "UnexpectedVariant", type_name |-> type_name, allowed |-> allowed,
     found |-> found]

\* Ok(value) of a decode, with the bytes the decoder has not read yet
DecodeOk(value, rest) == [value |-> value, ok |-> TRUE, rest |-> rest]

DecodeErr(error) == [ok |-> FALSE, error |-> error]

\* the reader of a slice: the next n bytes
Take(bytes, n) ==
    IF Len(bytes) < n THEN DecodeErr(UnexpectedEnd)
    ELSE DecodeOk(SubSeq(bytes, 1, n), SubSeq(bytes, n + 1, Len(bytes)))

\* a value of n bytes followed by [u8; padding]
TakePadded(bytes, n, padding) ==
    LET v == Take(bytes, n) IN
    IF ~v.ok THEN v
    ELSE LET pad == Take(v.rest, padding) IN
         IF ~pad.ok THEN pad ELSE DecodeOk(v.value, pad.rest)

\* size_of::<CommandHeaderRaw>(): the header is a u16
CommandHeaderSize == 2

\* COMMAND_PADDING of a command whose arguments take n bytes
CommandPadding(n) == COMMAND_LEN - CommandHeaderSize - n

\* CommandHeader::new(command, data_len): the raw u16
CommandHeaderNew(command, data_len) ==
    SetBits(SetBits(0, 0, 7, CommandTypeAsU8(command)), 8, 15, data_len)

\* CommandHeader::command() of a header that try_from has admitted
CommandHeaderCommand(raw) == CommandTypeTryFrom(GetBits(raw, 0, 7)).value

\* faulty variant: the opcode field read one bit too wide
CommandHeaderTryFromWideField(value) == CommandTypeTryFrom(GetBits(value, 0, 8)).ok

\* TryFrom<u16> for CommandHeader
CommandHeaderTryFrom(value) == CommandTypeTryFrom(GetBits(value, 0, 7)).ok

CommandHeaderEncode(raw) == EncodeU16(raw)

\* the opcodes the decode error of the header lists as allowed
CommandHeaderAllowed == {CommandTypeAsU8(t) : t \in CommandTypes \ {"GetLpmPpmInfo"}}

CommandHeaderDecode(bytes) ==
    LET r == Take(bytes, 2) IN
    IF ~r.ok THEN r
    ELSE IF CommandHeaderTryFrom(DecodeU16(r.value)) THEN DecodeOk(DecodeU16(r.value), r.rest)
    ELSE DecodeErr(UnexpectedVariant("CommandHeader", CommandHeaderAllowed,
                                     DecodeU16(r.value)))

(***************************************************************************)
(* Arguments of the PPM commands                                           *)
(***************************************************************************)
\* ppm_reset::Args: no arguments, the six bytes after the header are padding
PpmResetArgsEncode == Zeros(CommandPadding(0))

PpmResetArgsDecode(bytes) == TakePadded(bytes, 0, CommandPadding(0))

\* cancel::Args
CancelArgsEncode == Zeros(CommandPadding(0))

CancelArgsDecode(bytes) == TakePadded(bytes, 0, CommandPadding(0))

\* get_capability::Args
GetCapabilityArgsEncode == Zeros(CommandPadding(0))

GetCapabilityArgsDecode(bytes) == TakePadded(bytes, 0, CommandPadding(0))

\* ack_cc_ci::Args: the ack byte, then padding
AckCcCiArgsEncode(ack) == EncodeU8(ack) \o Zeros(CommandPadding(1))

AckCcCiArgsDecode(bytes) ==
    LET r == TakePadded(bytes, 1, CommandPadding(1)) IN
    IF ~r.ok THEN r ELSE DecodeOk(r.value[1], r.rest)

\* set_notification_enable::Args: the u32 of flags, then padding
SetNotificationEnableArgsEncode(ne) == EncodeU32(ne) \o Zeros(CommandPadding(4))

SetNotificationEnableArgsDecode(bytes) ==
    LET r == TakePadded(bytes, 4, CommandPadding(4)) IN
    IF ~r.ok THEN r ELSE DecodeOk(DecodeU32(r.value), r.rest)

PpmCommandTypes == {"PpmReset", "Cancel", "AckCcCi", "SetNotificationEnable", "GetCapability"}

\* impl Encode for ppm::Command: the arguments of the variant, nothing else
PpmCommandEncode(c) ==
    CASE c.type = "PpmReset" -> PpmResetArgsEncode
      [] c.type = "Cancel" -> CancelArgsEncode
      [] c.type = "AckCcCi" -> AckCcCiArgsEncode(c.ack)
      [] c.type = "SetNotificationEnable" ->
            SetNotificationEnableArgsEncode(c.notification_enable)
      [] c.type = "GetCapability" -> GetCapabilityArgsEncode

\* the value a decode of arguments yields, or its error
MapOk(r, value) == IF r.ok THEN DecodeOk(value, r.rest) ELSE r

\* impl Decode<CommandHeader> for ppm::Command
PpmCommandDecodeWith(header, bytes) ==
    LET type == CommandHeaderCommand(header) IN
    CASE type = "PpmReset" -> MapOk(PpmResetArgsDecode(bytes), PpmReset)
      [] type = "Cancel" -> MapOk(CancelArgsDecode(bytes), Cancel)
      [] type = "AckCcCi" ->
            LET r == AckCcCiArgsDecode(bytes) IN
            IF r.ok THEN DecodeOk(AckCcCi(r.value), r.rest) ELSE r
      [] type = "SetNotificationEnable" ->
            LET r == SetNotificationEnableArgsDecode(bytes) IN
            IF r.ok THEN DecodeOk(SetNotificationEnable(r.value), r.rest) ELSE r
      [] type = "GetCapability" -> MapOk(GetCapabilityArgsDecode(bytes), GetCapability)
      [] OTHER ->
            DecodeErr(UnexpectedVariant("CommandType",
                                        {CommandTypeAsU8(t) : t \in PpmCommandTypes},
                                        CommandTypeAsU8(type)))

\* impl Decode<()> for ppm::Command: the header, then the arguments under it
PpmCommandDecode(bytes) ==
    LET h == CommandHeaderDecode(bytes) IN
    IF ~h.ok THEN h ELSE PpmCommandDecodeWith(h.value, h.rest)

(***************************************************************************)
(* Arguments of the LPM commands                                           *)
(***************************************************************************)
\* connector_reset::Args and the Args of the other commands without arguments:
\* the padding after the connector byte
NoArgsEncode == Zeros(CommandPadding(1))

NoArgsDecode(bytes) == TakePadded(bytes, 0, CommandPadding(1))

\* faulty variant: the whole byte taken as the connector number
ConnectorNumberWholeByte(raw) == raw

\* ConnectorNumberRaw(u8)::connector_number(): bits 6..0
ConnectorNumber(raw) == GetBits(raw, 0, 6)

\* ConnectorNumberRaw(u8)::high_bit(): bit 7
HighBit(raw) == GetBits(raw, 7, 7) = 1

\* set_ccom::Args, set_uor::Args, set_pdr::Args: the raw u16, then padding
Raw16ArgsEncode(args) == EncodeU16(args.raw16) \o Zeros(CommandPadding(2))

Raw16ArgsDecode(type, bytes) ==
    LET r == TakePadded(bytes, 2, CommandPadding(2)) IN
    IF ~r.ok THEN r ELSE DecodeOk(Raw16Args(type, DecodeU16(r.value)), r.rest)

\* set_new_cam::Args: the connector byte with enter in bit 7, am_offset, am_specific
SetNewCamArgsEncode(args) ==
    EncodeU8(SetBits(SetBits(0, 0, 6, args.connector_number), 7, 7, BoolBit(args.enter)))
    \o EncodeU8(args.am_offset) \o EncodeU32(args.am_specific)

SetNewCamArgsDecode(bytes) ==
    LET c == Take(bytes, 1) IN
    IF ~c.ok THEN c
    ELSE LET o == Take(c.rest, 1) IN
         IF ~o.ok THEN o
         ELSE LET a == Take(o.rest, 4) IN
              IF ~a.ok THEN a
              ELSE DecodeOk(SetNewCamArgs(ConnectorNumber(c.value[1]), HighBit(c.value[1]),
                                          o.value[1], DecodeU32(a.value)), a.rest)

\* TryFrom<u8> for set_power_level::Current admits 0..=3
CurrentTryFrom(value) == value \in 0..3

\* set_power_level::Args: the six raw bytes
SetPowerLevelArgsEncode(args) == args.raw48

SetPowerLevelArgsDecode(bytes) ==
    LET r == Take(bytes, 6) IN
    IF ~r.ok THEN r
    ELSE IF CurrentTryFrom(SetPowerLevelTypeCCurrent(r.value))
    THEN DecodeOk(SetPowerLevelArgs(r.value), r.rest)
    ELSE DecodeErr(UnexpectedVariant("Current", 0..3, SetPowerLevelTypeCCurrent(r.value)))

\* TryFrom<u8> for Recipient admits Connector, Sop, SopP, SopPp
RecipientTryFrom(value) == value \in {0, 1, 2, 3}

\* get_alternate_modes::Args: the raw u32, then padding
GetAlternateModesArgsEncode(args) == EncodeU32(args.raw32) \o Zeros(CommandPadding(4))

GetAlternateModesArgsDecode(bytes) ==
    LET r == TakePadded(bytes, 4, CommandPadding(4)) IN
    IF ~r.ok THEN r
    ELSE IF RecipientTryFrom(GetAlternateModesRecipient(DecodeU32(r.value)))
    THEN DecodeOk(GetAlternateModesArgs(DecodeU32(r.value)), r.rest)
    ELSE DecodeErr(UnexpectedVariant("Recipient", {0, 1, 2, 3},
                                     GetAlternateModesRecipient(DecodeU32(r.value))))

\* get_pdos::Args: the raw u32, then padding; the decode keeps the raw value as it is
GetPdosArgsEncode(args) == EncodeU32(args.raw32) \o Zeros(CommandPadding(4))

GetPdosArgsDecode(bytes) ==
    LET r == TakePadded(bytes, 4, CommandPadding(4)) IN
    IF ~r.ok THEN r ELSE DecodeOk(GetPdosArgs(DecodeU32(r.value)), r.rest)

\* the connector number the arguments of an operation carry
ArgsConnectorNumber(operation) ==
    CASE operation.type \in Raw16Operations -> Raw16ConnectorNumber(operation.raw16)
      [] operation.type = "SetNewCam" -> operation.connector_number
      [] operation.type = "SetPowerLevel" -> SetPowerLevelConnectorNumber(operation.raw48)
      [] operation.type = "GetAlternateModes" ->
            GetAlternateModesConnectorNumber(operation.raw32)
      [] operation.type = "GetPdos" -> GetPdosConnectorNumber(operation.raw32)

\* impl Encode for lpm::Command: the header with data_len 0, then the port byte
\* and the padding, or the arguments alone where they hold the connector number
LpmCommandEncode(c) ==
    CommandHeaderEncode(CommandHeaderNew(c.operation.type, 0))
    \o (CASE c.operation.type \in NoArgOperations -> EncodeU8(c.port) \o NoArgsEncode
          [] c.operation.type \in Raw16Operations -> Raw16ArgsEncode(c.operation)
          [] c.operation.type = "SetNewCam" -> SetNewCamArgsEncode(c.operation)
          [] c.operation.type = "SetPowerLevel" -> SetPowerLevelArgsEncode(c.operation)
          [] c.operation.type = "GetAlternateModes" ->
                GetAlternateModesArgsEncode(c.operation)
          [] c.operation.type = "GetPdos" -> GetPdosArgsEncode(c.operation))

\* Ok(Command { port: From::from(args.connector_number()), operation })
LpmWithArgs(r) ==
    IF r.ok THEN DecodeOk(LpmCommandNew(ArgsConnectorNumber(r.value), r.value), r.rest)
    ELSE r

\* impl Decode<CommandHeader> for lpm::Command
LpmCommandDecodeWith(header, bytes) ==
    LET type == CommandHeaderCommand(header) IN
    CASE type \in NoArgOperations ->
            LET c == Take(bytes, 1) IN
            IF ~c.ok THEN c
            ELSE MapOk(NoArgsDecode(c.rest),
                       LpmCommandNew(ConnectorNumber(c.value[1]), NoArgs(type)))
      [] type \in Raw16Operations -> LpmWithArgs(Raw16ArgsDecode(type, bytes))
      [] type = "SetNewCam" -> LpmWithArgs(SetNewCamArgsDecode(bytes))
      [] type = "SetPowerLevel" -> LpmWithArgs(SetPowerLevelArgsDecode(bytes))
      [] type = "GetAlternateModes" -> LpmWithArgs(GetAlternateModesArgsDecode(bytes))
      [] type = "GetPdos" -> LpmWithArgs(GetPdosArgsDecode(bytes))
      [] OTHER ->
            DecodeErr(UnexpectedVariant("CommandType",
                                        {CommandTypeAsU8("GetConnectorStatus")},
                                        CommandTypeAsU8(type)))

\* impl Decode<()> for lpm::Command
LpmCommandDecode(bytes) ==
    LET h == CommandHeaderDecode(bytes) IN
    IF ~h.ok THEN h ELSE LpmCommandDecodeWith(h.value, h.rest)

\* impl Decode for ucsi::Command: the header picks the PPM or the LPM decoder
CommandDecode(bytes) ==
    LET h == CommandHeaderDecode(bytes) IN
    IF ~h.ok THEN h
    ELSE IF CommandHeaderCommand(h.value) \in PpmCommandTypes
    THEN PpmCommandDecodeWith(h.value, h.rest)
    ELSE LpmCommandDecodeWith(h.value, h.rest)

\* bincode::decode_from_slice: Ok((value, bytes read)) or the error
DecodeFromSlice(r, bytes) ==
    IF r.ok THEN [value |-> r.value, ok |-> TRUE, consumed |-> Len(bytes) - Len(r.rest)]
    ELSE r

\* bincode::encode_into_slice of a ppm::Command or of an lpm::Command
EncodeCommand(c) == IF c.class = "Ppm" THEN PpmCommandEncode(c) ELSE LpmCommandEncode(c)

(***************************************************************************)
(* The codec in use: a command is built, encoded, and the bytes decoded     *)
(***************************************************************************)
\* encode_into_slice(cmd, ..): the bytes the command's Encode writes
EncodeStep ==
    /\ pc = "built"
    /\ wire' = EncodeCommand(cmd)
    /\ pc' = "encoded"
    /\ UNCHANGED <<cmd, decoded, response, context>>
    /\ UNCHANGED <<ppmVars, cciVars, runVars>>

\* decode_from_slice::<ppm::Command> or ::<lpm::Command> of the bytes, the type
\* that was encoded
DecodeStep ==
    /\ pc = "encoded"
    /\ decoded' = DecodeFromSlice(IF cmd.class = "Ppm" THEN PpmCommandDecode(wire)
                                  ELSE LpmCommandDecode(wire), wire)
    /\ pc' = "decoded"
    /\ UNCHANGED <<cmd, wire, response, context>>
    /\ UNCHANGED <<ppmVars, cciVars, runVars>>

\* ucsi::Command::decode_from_slice of the bytes
DecodeCommandStep ==
    /\ pc = "encoded"
    /\ decoded' = DecodeFromSlice(CommandDecode(wire), wire)
    /\ pc' = "decoded"
    /\ UNCHANGED <<cmd, wire, response, context>>
    /\ UNCHANGED <<ppmVars, cciVars, runVars>>

InitCodec ==
    /\ InitPpm
    /\ InitRun
    /\ InitCci
    /\ pc = "built"
    /\ cmd \in Commands
    /\ wire = <<>>
    /\ decoded = NotDecoded
    /\ response = NoResponse
    /\ context = NoContext

NextCodec == EncodeStep \/ DecodeStep \/ DecodeCommandStep

SpecCodec == InitCodec /\ [][NextCodec]_vars

\* C10: every command of every type (the five PPM commands, every LPM command
\* with connector 0..127 and least and greatest argument values) that is
\* encoded and whose bytes are then decoded comes back equal to the original.
C10_CommandRoundTrip ==
    pc = "decoded" => decoded.ok /\ decoded.value = cmd

(***************************************************************************)
(* Response data codec                                                     *)
(***************************************************************************)
\* u8::decode, u16::decode, u32::decode of the reader
U8Decode(bytes) ==
    LET r == Take(bytes, 1) IN IF ~r.ok THEN r ELSE DecodeOk(r.value[1], r.rest)

U16Decode(bytes) ==
    LET r == Take(bytes, 2) IN IF ~r.ok THEN r ELSE DecodeOk(DecodeU16(r.value), r.rest)

U32Decode(bytes) ==
    LET r == Take(bytes, 4) IN IF ~r.ok THEN r ELSE DecodeOk(DecodeU32(r.value), r.rest)

\* get_cam_supported::ResponseData { alt_modes: u8 }
GetCamSupportedResponseEncode(d) == EncodeU8(d.alt_modes)

GetCamSupportedResponseDecode(bytes) ==
    LET r == U8Decode(bytes) IN
    IF ~r.ok THEN r ELSE DecodeOk([alt_modes |-> r.value], r.rest)

\* get_current_cam::RESPONSE_DATA_LEN
GetCurrentCamResponseLen == 16

\* get_current_cam::ResponseData { alt_modes: [u8; 16] }
GetCurrentCamResponseEncode(d) == d.alt_modes

GetCurrentCamResponseDecode(bytes) ==
    LET r == Take(bytes, GetCurrentCamResponseLen) IN
    IF ~r.ok THEN r ELSE DecodeOk([alt_modes |-> r.value], r.rest)

\* get_pdos::MAX_PDOS
MAX_PDOS == 4

Zero32 == U32(0, 0)

\* get_pdos::ResponseData { raw: [u32; MAX_PDOS] }: encode writes the PDOs in
\* front of the first zero PDO and stops there
RECURSIVE GetPdosResponseEncodeFrom(_, _)
GetPdosResponseEncodeFrom(raw, i) ==
    IF i > Len(raw) \/ raw[i] = Zero32 THEN <<>>
    ELSE EncodeU32(raw[i]) \o GetPdosResponseEncodeFrom(raw, i + 1)

GetPdosResponseEncode(d) == GetPdosResponseEncodeFrom(d.raw, 1)

\* decode reads the whole array [u32; MAX_PDOS]
GetPdosResponseDecode(bytes) ==
    LET r == Take(bytes, 4 * MAX_PDOS) IN
    IF ~r.ok THEN r
    ELSE DecodeOk([raw |-> [i \in 1..MAX_PDOS |->
                              DecodeU32(SubSeq(r.value, 4 * i - 3, 4 * i))]], r.rest)

\* get_connector_capability::ResponseData(ResponseDataRaw(u32))
GetConnectorCapabilityResponseEncode(d) == EncodeU32(d.raw32)

GetConnectorCapabilityResponseDecode(bytes) ==
    LET r == U32Decode(bytes) IN
    IF ~r.ok THEN r ELSE DecodeOk([raw32 |-> r.value], r.rest)

\* get_error_status::MAX_VENDOR_DATA_LEN
MAX_VENDOR_DATA_LEN == 14

\* get_error_status::ResponseData { information, vendor }
GetErrorStatusResponseEncode(d) == EncodeU16(d.information) \o d.vendor

GetErrorStatusResponseDecode(bytes) ==
    LET information == U16Decode(bytes) IN
    IF ~information.ok THEN information
    ELSE LET vendor == Take(information.rest, MAX_VENDOR_DATA_LEN) IN
         IF ~vendor.ok THEN vendor
         ELSE DecodeOk([information |-> information.value, vendor |-> vendor.value],
                       vendor.rest)

AltMode(svid, mid) == [svid |-> svid, mid |-> mid]

\* get_alternate_modes::ResponseData { alt_modes: [AltMode; 2] }: per mode the
\* u16 SVID and the u32 mode id
GetAlternateModesResponseEncode(d) ==
    EncodeU16(d.alt_modes[1].svid) \o EncodeU32(d.alt_modes[1].mid)
        \o EncodeU16(d.alt_modes[2].svid) \o EncodeU32(d.alt_modes[2].mid)

AltModeDecode(bytes) ==
    LET svid == U16Decode(bytes) IN
    IF ~svid.ok THEN svid
    ELSE LET mid == U32Decode(svid.rest) IN
         IF ~mid.ok THEN mid ELSE DecodeOk(AltMode(svid.value, mid.value), mid.rest)

GetAlternateModesResponseDecode(bytes) ==
    LET first == AltModeDecode(bytes) IN
    IF ~first.ok THEN first
    ELSE LET second == AltModeDecode(first.rest) IN
         IF ~second.ok THEN second
         ELSE DecodeOk([alt_modes |-> <<first.value, second.value>>], second.rest)

\* impl Encode for OptionalFeatures: the low u16 and bits 16..23 as a u8
OptionalFeaturesEncode(raw) == EncodeU16(raw.lo) \o EncodeU8(raw.hi % 256)

OptionalFeaturesDecode(bytes) ==
    LET lower == U16Decode(bytes) IN
    IF ~lower.ok THEN lower
    ELSE LET upper == U8Decode(lower.rest) IN
         IF ~upper.ok THEN upper ELSE DecodeOk(U32(lower.value, upper.value), upper.rest)

\* get_capability::ResponseData
GetCapabilityResponse(attributes, num_connectors, optional_features, num_alt_modes,
                      bcd_battery_charging_spec, bcd_usb_pd_spec, bcd_type_c_spec) ==
    [attributes |-> attributes, num_connectors |-> num_connectors,
     optional_features |-> optional_features, num_alt_modes |-> num_alt_modes,
     bcd_battery_charging_spec |-> bcd_battery_charging_spec,
     bcd_usb_pd_spec |-> bcd_usb_pd_spec, bcd_type_c_spec |-> bcd_type_c_spec]

\* the fields in order, with a reserved zero byte after num_alt_modes
GetCapabilityResponseEncode(d) ==
    EncodeU32(d.attributes) \o EncodeU8(d.num_connectors)
        \o OptionalFeaturesEncode(d.optional_features) \o EncodeU8(d.num_alt_modes)
        \o EncodeU8(0) \o EncodeU16(d.bcd_battery_charging_spec)
        \o EncodeU16(d.bcd_usb_pd_spec) \o EncodeU16(d.bcd_type_c_spec)

GetCapabilityResponseDecode(bytes) ==
    LET attributes == U32Decode(bytes) IN
    IF ~attributes.ok THEN attributes ELSE
    LET num_connectors == U8Decode(attributes.rest) IN
    IF ~num_connectors.ok THEN num_connectors ELSE
    LET optional_features == OptionalFeaturesDecode(num_connectors.rest) IN
    IF ~optional_features.ok THEN optional_features ELSE
    LET num_alt_modes == U8Decode(optional_features.rest) IN
    IF ~num_alt_modes.ok THEN num_alt_modes ELSE
    LET reserved == U8Decode(num_alt_modes.rest) IN
    IF ~reserved.ok THEN reserved ELSE
    LET bcd_battery_charging_spec == U16Decode(reserved.rest) IN
    IF ~bcd_battery_charging_spec.ok THEN bcd_battery_charging_spec ELSE
    LET bcd_usb_pd_spec == U16Decode(bcd_battery_charging_spec.rest) IN
    IF ~bcd_usb_pd_spec.ok THEN bcd_usb_pd_spec ELSE
    LET bcd_type_c_spec == U16Decode(bcd_usb_pd_spec.rest) IN
    IF ~bcd_type_c_spec.ok THEN bcd_type_c_spec ELSE
    DecodeOk(GetCapabilityResponse(attributes.value, num_connectors.value,
                                   optional_features.value, num_alt_modes.value,
                                   bcd_battery_charging_spec.value,
                                   bcd_usb_pd_spec.value, bcd_type_c_spec.value),
             bcd_type_c_spec.rest)

\* pdo::MA50_UNIT
MA50_UNIT == 50

\* get_cable_property::RESPONSE_DATA_LEN
GetCablePropertyResponseLen == 5

SpeedUnits == <<"Bps", "Kbps", "Mbps", "Gbps">>

\* SpeedSupported::Bps(v) .. Gbps(v)
SpeedSupported(units, v) == [v |-> v, units |-> units]

\* From<u16> for SpeedSupported: units in bits 0..1, value in bits 2..15
SpeedSupportedFromU16(value) ==
    SpeedSupported(SpeedUnits[GetBits(value, 0, 1) + 1], GetBits(value, 2, 15))

\* From<SpeedSupported> for u16
SpeedSupportedToU16(speed) ==
    LET units == CHOOSE i \in 1..4 : SpeedUnits[i] = speed.units IN
    SetBits(SetBits(0, 0, 1, units - 1), 2, 15, speed.v)

PlugEndTypes == <<"TypeA", "TypeB", "TypeC", "Other">>

\* From<u8> for PlugEndType
PlugEndTypeFromU8(value) == PlugEndTypes[(value % 4) + 1]

\* From<PlugEndType> for u8
PlugEndTypeToU8(t) == (CHOOSE i \in 1..4 : PlugEndTypes[i] = t) - 1

\* get_cable_property::ResponseData
GetCablePropertyResponse(speed_supported, current_capability, vbus_in_cable,
                         active_cable, directionality_configurable, plug_end_type,
                         alt_mode_supported, cable_pd_major, latency) ==
    [speed_supported |-> speed_supported, current_capability |-> current_capability,
     vbus_in_cable |-> vbus_in_cable, active_cable |-> active_cable,
     directionality_configurable |-> directionality_configurable,
     plug_end_type |-> plug_end_type, alt_mode_supported |-> alt_mode_supported,
     cable_pd_major |-> cable_pd_major, latency |-> latency]

\* From<[u8; RESPONSE_DATA_LEN]> for get_cable_property::ResponseData
GetCablePropertyFromBytes(value) ==
    GetCablePropertyResponse(
        SpeedSupportedFromU16(GetBitsBytes(value, 0, 15)),
        GetBitsBytes(value, 16, 23) * MA50_UNIT,
        GetBitsBytes(value, 24, 24) = 1,
        GetBitsBytes(value, 25, 25) = 1,
        GetBitsBytes(value, 26, 26) = 1,
        PlugEndTypeFromU8(GetBitsBytes(value, 27, 28)),
        GetBitsBytes(value, 29, 29) = 1,
        GetBitsBytes(value, 30, 31),
        GetBitsBytes(value, 32, 35))

\* From<get_cable_property::ResponseData> for [u8; RESPONSE_DATA_LEN]:
\* `(current_capability / MA50_UNIT) as u8` keeps the low 8 bits of the quotient
GetCablePropertyToBytes(d) ==
    LET b0 == Zeros(GetCablePropertyResponseLen)
        b1 == SetBitsBytes(b0, 0, 15, SpeedSupportedToU16(d.speed_supported))
        b2 == SetBitsBytes(b1, 16, 23, (d.current_capability \div MA50_UNIT) % 256)
        b3 == SetBitsBytes(b2, 24, 24, BoolBit(d.vbus_in_cable))
        b4 == SetBitsBytes(b3, 25, 25, BoolBit(d.active_cable))
        b5 == SetBitsBytes(b4, 26, 26, BoolBit(d.directionality_configurable))
        b6 == SetBitsBytes(b5, 27, 28, PlugEndTypeToU8(d.plug_end_type))
        b7 == SetBitsBytes(b6, 29, 29, BoolBit(d.alt_mode_supported))
        b8 == SetBitsBytes(b7, 30, 31, d.cable_pd_major)
    IN  SetBitsBytes(b8, 32, 35, d.latency)

GetCablePropertyResponseEncode(d) == GetCablePropertyToBytes(d)

GetCablePropertyResponseDecode(bytes) ==
    LET r == Take(bytes, GetCablePropertyResponseLen) IN
    IF ~r.ok THEN r ELSE DecodeOk(GetCablePropertyFromBytes(r.value), r.rest)

\* Option<T>
OptNone == [some |-> FALSE]

OptSome(v) == [value |-> v, some |-> TRUE]

\* Ok(v) of a conversion
TryOk(v) == [value |-> v, ok |-> TRUE]

\* a panic of the call: it does not return
Panicked(reason) == [ok |-> FALSE, panic |-> reason]

\* pdo::MA5_UNIT and pdo::MV5_UNIT
MA5_UNIT == 5

MV5_UNIT == 5

\* get_connector_status::RESPONSE_DATA_LEN
GetConnectorStatusResponseLen == 19

\* PowerOperationMode: UsbDefault = 1 .. TypeC5A = 6
PowerOperationModes == <<"UsbDefault", "Bc", "Pd", "TypeC1_5A", "TypeC3A", "TypeC5A">>

PowerOperationModeAsU8(mode) == CHOOSE i \in 1..6 : PowerOperationModes[i] = mode

\* TryFrom<u8> for PowerOperationMode, the error turned into a DecodeError
PowerOperationModeTryFrom(val) ==
    IF val \in 1..6 THEN [value |-> PowerOperationModes[val], ok |-> TRUE]
    ELSE DecodeErr(UnexpectedVariant("PowerOperationMode", 1..6, val))

\* ConnectorPartnerType: DfpAttached = 1 .. AudioAdapterAccessory = 6
ConnectorPartnerTypes ==
    <<"DfpAttached", "UfpAttached", "PoweredCableNoUfp", "PoweredCableUfp",
      "DebugAccessory", "AudioAdapterAccessory">>

ConnectorPartnerTypeAsU8(t) == CHOOSE i \in 1..6 : ConnectorPartnerTypes[i] = t

\* TryFrom<u8> for ConnectorPartnerType, the error turned into a DecodeError
ConnectorPartnerTypeTryFrom(val) ==
    IF val \in 1..6 THEN [value |-> ConnectorPartnerTypes[val], ok |-> TRUE]
    ELSE DecodeErr(UnexpectedVariant("ConnectorPartnerType", 1..6, val))

\* BatteryChargingCapabilityStatus: NotCharging = 0 .. VerySlow = 3
BatteryChargingCapabilityStatuses == <<"NotCharging", "Nominal", "Slow", "VerySlow">>

BatteryChargingCapabilityStatusAsU8(s) ==
    (CHOOSE i \in 1..4 : BatteryChargingCapabilityStatuses[i] = s) - 1

\* TryFrom<u8> for BatteryChargingCapabilityStatus, the error turned into a
\* DecodeError
BatteryChargingCapabilityStatusTryFrom(val) ==
    IF val \in 0..3 THEN [value |-> BatteryChargingCapabilityStatuses[val + 1], ok |-> TRUE]
    ELSE DecodeErr(UnexpectedVariant("BatteryChargingCapabilityStatus", 0..3, val))

\* get_connector_status::ConnectedStatus
ConnectedStatus(power_op_mode, power_direction, partner_flags, partner_type, rdo,
                battery_charging_status, provider_caps_limited, bcd_pd_version,
                orientation, sink_path_status) ==
    [power_op_mode |-> power_op_mode, power_direction |-> power_direction,
     partner_flags |-> partner_flags, partner_type |-> partner_type, rdo |-> rdo,
     battery_charging_status |-> battery_charging_status,
     provider_caps_limited |-> provider_caps_limited,
     bcd_pd_version |-> bcd_pd_version, orientation |-> orientation,
     sink_path_status |-> sink_path_status]

\* get_connector_status::PowerReading
PowerReading(scale_ma, peak_current_ma, avg_current_ma, scale_mv, voltage_reading_mv) ==
    [scale_ma |-> scale_ma, peak_current_ma |-> peak_current_ma,
     avg_current_ma |-> avg_current_ma, scale_mv |-> scale_mv,
     voltage_reading_mv |-> voltage_reading_mv]

\* get_connector_status::ResponseData
GetConnectorStatusResponse(status_change, connect_status, status,
                           reverse_current_protection_status, power_reading) ==
    [status_change |-> status_change, connect_status |-> connect_status,
     status |-> status,
     reverse_current_protection_status |-> reverse_current_protection_status,
     power_reading |-> power_reading]

\* the part of try_from under `if connect_status`: Ok(ConnectedStatus) or the
\* error of the first field that is out of range
ConnectedStatusTryFrom(data) ==
    LET power_op_mode == PowerOperationModeTryFrom(GetBitsBytes(data, 16, 18))
        power_direction == IF GetBitsBytes(data, 20, 20) = 1 THEN "Source" ELSE "Sink"
        partner_flags == GetBitsBytes(data, 21, 28)
        partner_type == ConnectorPartnerTypeTryFrom(GetBitsBytes(data, 29, 31))
        raw_rdo == U32(GetBitsBytes(data, 32, 47), GetBitsBytes(data, 48, 63))
        battery == BatteryChargingCapabilityStatusTryFrom(GetBitsBytes(data, 64, 65))
        caps_limited == GetBitsBytes(data, 66, 69)
    IN  IF ~power_op_mode.ok THEN power_op_mode
        ELSE IF ~partner_type.ok THEN partner_type
        ELSE IF power_direction = "Sink" /\ ~battery.ok THEN battery
        ELSE TryOk(ConnectedStatus(
                  power_op_mode.value,
                  power_direction,
                  partner_flags,
                  partner_type.value,
                  IF power_op_mode.value = "Pd" /\ raw_rdo # Zero32
                      THEN OptSome(raw_rdo) ELSE OptNone,
                  IF power_direction = "Sink" THEN OptSome(battery.value) ELSE OptNone,
                  IF caps_limited # 0 THEN OptSome(caps_limited) ELSE OptNone,
                  IF power_op_mode.value = "Pd"
                      THEN OptSome(GetBitsBytes(data, 70, 85)) ELSE OptNone,
                  IF GetBitsBytes(data, 86, 86) = 1 THEN "CC2" ELSE "CC1",
                  GetBitsBytes(data, 87, 87) = 1))

\* the u16 products of the power reading: raw reading times its scale
PowerReadingProducts(data) ==
    LET current_scale == GetBitsBytes(data, 90, 92) * MA5_UNIT
        voltage_scale == GetBitsBytes(data, 125, 128) * MV5_UNIT
    IN  [scale_ma |-> current_scale,
         peak_current_ma |-> GetBitsBytes(data, 93, 108) * current_scale,
         avg_current_ma |-> GetBitsBytes(data, 109, 124) * current_scale,
         scale_mv |-> voltage_scale,
         voltage_reading_mv |-> GetBitsBytes(data, 129, 144) * voltage_scale]

PowerReadingOverflows(data) ==
    LET p == PowerReadingProducts(data) IN
    \/ p.peak_current_ma >= Pow2(16)
    \/ p.avg_current_ma >= Pow2(16)
    \/ p.voltage_reading_mv >= Pow2(16)

\* TryFrom<[u8; RESPONSE_DATA_LEN]> for get_connector_status::ResponseData.  A
\* u16 product that does not fit panics in a build with overflow checks and
\* wraps in a build without them.
GetConnectorStatusTryFrom(data, overflow_checks) ==
    LET connect_status == GetBitsBytes(data, 19, 19) = 1
        status == ConnectedStatusTryFrom(data)
        p == PowerReadingProducts(data)
    IN  IF connect_status /\ ~status.ok THEN status
        ELSE IF GetBitsBytes(data, 89, 89) = 1 /\ PowerReadingOverflows(data)
                /\ overflow_checks
        THEN Panicked("attempt to multiply with overflow")
        ELSE TryOk(GetConnectorStatusResponse(
                  GetBitsBytes(data, 0, 15),
                  connect_status,
                  IF connect_status THEN OptSome(status.value) ELSE OptNone,
                  GetBitsBytes(data, 88, 88) = 1,
                  IF GetBitsBytes(data, 89, 89) = 1
                  THEN OptSome(PowerReading(p.scale_ma,
                                            p.peak_current_ma % Pow2(16),
                                            p.avg_current_ma % Pow2(16),
                                            p.scale_mv,
                                            p.voltage_reading_mv % Pow2(16)))
                  ELSE OptNone))

\* the part of From<ResponseData> under `if let Some(status)`
ConnectedStatusToBytes(raw, status) ==
    LET b1 == SetBitsBytes(raw, 16, 18, PowerOperationModeAsU8(status.power_op_mode))
        b2 == SetBitsBytes(b1, 20, 20, BoolBit(status.power_direction = "Source"))
        b3 == SetBitsBytes(b2, 21, 28, status.partner_flags)
        b4 == SetBitsBytes(b3, 29, 31, ConnectorPartnerTypeAsU8(status.partner_type))
        b5 == IF status.rdo.some /\ status.rdo.value # Zero32
              THEN SetBitsBytes(SetBitsBytes(b4, 32, 47, status.rdo.value.lo),
                                48, 63, status.rdo.value.hi)
              ELSE b4
        b6 == IF status.battery_charging_status.some
              THEN SetBitsBytes(b5, 64, 65,
                     BatteryChargingCapabilityStatusAsU8(status.battery_charging_status.value))
              ELSE b5
        b7 == IF status.provider_caps_limited.some
              THEN SetBitsBytes(b6, 66, 69, status.provider_caps_limited.value)
              ELSE b6
        b8 == IF status.bcd_pd_version.some
              THEN SetBitsBytes(b7, 70, 85, status.bcd_pd_version.value)
              ELSE b7
        b9 == SetBitsBytes(b8, 86, 86, BoolBit(status.orientation = "CC2"))
    IN  SetBitsBytes(b9, 87, 87, BoolBit(status.sink_path_status))

\* the part of From<ResponseData> under `if let Some(power_reading)`; the
\* divisors are not zero
PowerReadingToBytes(raw, power_reading) ==
    LET b1 == SetBitsBytes(raw, 89, 89, 1)
        b2 == SetBitsBytes(b1, 90, 92, (power_reading.scale_ma \div MA5_UNIT) % 256)
        b3 == SetBitsBytes(b2, 93, 108,
                           power_reading.peak_current_ma \div power_reading.scale_ma)
        b4 == SetBitsBytes(b3, 109, 124,
                           power_reading.avg_current_ma \div power_reading.scale_ma)
        b5 == SetBitsBytes(b4, 125, 128, (power_reading.scale_mv \div MV5_UNIT) % 256)
    IN  SetBitsBytes(b5, 129, 144,
                     power_reading.voltage_reading_mv \div power_reading.scale_mv)

\* the divisions of From<ResponseData> divide by scale_ma and by scale_mv
PowerReadingDividesByZero(d) ==
    d.power_reading.some
        /\ (d.power_reading.value.scale_ma = 0 \/ d.power_reading.value.scale_mv = 0)

\* From<ResponseData> for [u8; RESPONSE_DATA_LEN]
GetConnectorStatusToBytes(d) ==
    LET b0 == Zeros(GetConnectorStatusResponseLen)
        b1 == SetBitsBytes(b0, 0, 15, d.status_change)
        b2 == SetBitsBytes(b1, 19, 19, BoolBit(d.connect_status))
        b3 == IF d.status.some THEN ConnectedStatusToBytes(b2, d.status.value) ELSE b2
        b4 == SetBitsBytes(b3, 88, 88, BoolBit(d.reverse_current_protection_status))
    IN  IF d.power_reading.some THEN PowerReadingToBytes(b4, d.power_reading.value)
        ELSE SetBitsBytes(b4, 89, 89, 0)

\* impl Encode for get_connector_status::ResponseData: Ok(bytes), or the panic
\* of the division
GetConnectorStatusResponseEncode(d) ==
    IF PowerReadingDividesByZero(d) THEN Panicked("attempt to divide by zero")
    ELSE [bytes |-> GetConnectorStatusToBytes(d), ok |-> TRUE]

\* impl Decode for get_connector_status::ResponseData
GetConnectorStatusResponseDecode(bytes, overflow_checks) ==
    LET r == Take(bytes, GetConnectorStatusResponseLen) IN
    IF ~r.ok THEN r
    ELSE LET data == GetConnectorStatusTryFrom(r.value, overflow_checks) IN
         IF ~data.ok THEN data ELSE DecodeOk(data.value, r.rest)

\* the variants of lpm::ResponseData and of ppm::ResponseData
LpmResponseTypes ==
    {"ConnectorReset", "GetConnectorStatus", "GetConnectorCapability", "GetErrorStatus",
     "GetAlternateModes", "GetCamSupported", "GetCurrentCam", "GetPdos",
     "GetCableProperty"}

PpmResponseTypes == {"GetCapability"}

\* lpm::ResponseData::ConnectorReset carries no data
ConnectorResetResponse == [class |-> "Lpm", type |-> "ConnectorReset"]

LpmResponse(type, data) == [class |-> "Lpm", type |-> type, data |-> data]

PpmResponse(type, data) == [class |-> "Ppm", type |-> type, data |-> data]

EncodeOk(bytes) == [bytes |-> bytes, ok |-> TRUE]

\* impl Encode for lpm::ResponseData
LpmResponseEncode(r) ==
    CASE r.type = "ConnectorReset" -> EncodeOk(<<>>)
      [] r.type = "GetConnectorStatus" -> GetConnectorStatusResponseEncode(r.data)
      [] r.type = "GetConnectorCapability" ->
            EncodeOk(GetConnectorCapabilityResponseEncode(r.data))
      [] r.type = "GetErrorStatus" -> EncodeOk(GetErrorStatusResponseEncode(r.data))
      [] r.type = "GetAlternateModes" -> EncodeOk(GetAlternateModesResponseEncode(r.data))
      [] r.type = "GetCamSupported" -> EncodeOk(GetCamSupportedResponseEncode(r.data))
      [] r.type = "GetCurrentCam" -> EncodeOk(GetCurrentCamResponseEncode(r.data))
      [] r.type = "GetPdos" -> EncodeOk(GetPdosResponseEncode(r.data))
      [] r.type = "GetCableProperty" -> EncodeOk(GetCablePropertyResponseEncode(r.data))

\* Ok(variant(data)) of a decoded payload
WithData(class, type, r) ==
    IF r.ok THEN DecodeOk([class |-> class, type |-> type, data |-> r.value], r.rest)
    ELSE r

\* impl Decode<CommandType> for lpm::ResponseData
LpmResponseDecode(command_type, bytes, overflow_checks) ==
    CASE command_type = "ConnectorReset" -> DecodeOk(ConnectorResetResponse, bytes)
      [] command_type = "GetConnectorStatus" ->
            WithData("Lpm", command_type,
                     GetConnectorStatusResponseDecode(bytes, overflow_checks))
      [] command_type = "GetConnectorCapability" ->
            WithData("Lpm", command_type, GetConnectorCapabilityResponseDecode(bytes))
      [] command_type = "GetErrorStatus" ->
            WithData("Lpm", command_type, GetErrorStatusResponseDecode(bytes))
      [] command_type = "GetAlternateModes" ->
            WithData("Lpm", command_type, GetAlternateModesResponseDecode(bytes))
      [] command_type = "GetCamSupported" ->
            WithData("Lpm", command_type, GetCamSupportedResponseDecode(bytes))
      [] command_type = "GetCurrentCam" ->
            WithData("Lpm", command_type, GetCurrentCamResponseDecode(bytes))
      [] command_type = "GetPdos" ->
            WithData("Lpm", command_type, GetPdosResponseDecode(bytes))
      [] command_type = "GetCableProperty" ->
            WithData("Lpm", command_type, GetCablePropertyResponseDecode(bytes))
      [] OTHER ->
            DecodeErr(UnexpectedVariant("CommandType",
                                        {CommandTypeAsU8("GetConnectorStatus")},
                                        CommandTypeAsU8(command_type)))

\* impl Encode for ppm::ResponseData
PpmResponseEncode(r) == EncodeOk(GetCapabilityResponseEncode(r.data))

\* impl Decode<CommandType> for ppm::ResponseData
PpmResponseDecode(command_type, bytes) ==
    IF command_type = "GetCapability"
    THEN WithData("Ppm", command_type, GetCapabilityResponseDecode(bytes))
    ELSE DecodeErr(UnexpectedVariant("CommandType", {CommandTypeAsU8("GetCapability")},
                                     CommandTypeAsU8(command_type)))

\* impl Encode for ucsi::ResponseData
ResponseEncode(r) == IF r.class = "Ppm" THEN PpmResponseEncode(r) ELSE LpmResponseEncode(r)

\* decode of the response data of a class with a CommandType as context
ResponseDecode(class, command_type, bytes, overflow_checks) ==
    IF class = "Ppm" THEN PpmResponseDecode(command_type, bytes)
    ELSE LpmResponseDecode(command_type, bytes, overflow_checks)

(***************************************************************************)
(* Response data handed to the codec                                       *)
(***************************************************************************)
Max32 == U32(65535, 65535)

OnePdo == U32(1, 0)

\* get_pdos responses holding 0..4 PDOs, and one with a zero PDO in the middle
GetPdosResponses ==
    {[raw |-> <<Zero32, Zero32, Zero32, Zero32>>],
     [raw |-> <<OnePdo, Zero32, Zero32, Zero32>>],
     [raw |-> <<OnePdo, Max32, Zero32, Zero32>>],
     [raw |-> <<OnePdo, Max32, OnePdo, Zero32>>],
     [raw |-> <<OnePdo, Max32, OnePdo, Max32>>],
     [raw |-> <<OnePdo, Zero32, OnePdo, Max32>>]}

\* the connected statuses: every combination of present and absent optional
\* fields, in and out of PD mode, as sink and as source
ConnectedStatuses ==
    {ConnectedStatus(mode, direction, 8, "DfpAttached", rdo, battery, caps, bcd, "CC2",
                     TRUE) :
        mode \in {"UsbDefault", "Pd"}, direction \in {"Sink", "Source"},
        rdo \in {OptNone, OptSome(U32(13330, 30806))},
        battery \in {OptNone, OptSome("Nominal")},
        caps \in {OptNone, OptSome(1)},
        bcd \in {OptNone, OptSome(768)}}

\* no reading, a reading of 8 and 1 units of 5 mA and 2 units of 5 mV, and
\* PowerReading::default()
PowerReadings ==
    {OptNone, OptSome(PowerReading(5, 40, 5, 5, 10)), OptSome(PowerReading(0, 0, 0, 0, 0))}

GetConnectorStatusResponses ==
    {GetConnectorStatusResponse(32769, connect_status, status, TRUE, power_reading) :
        connect_status \in BOOLEAN,
        status \in {OptNone} \cup {OptSome(s) : s \in ConnectedStatuses},
        power_reading \in PowerReadings}
    \cup {GetConnectorStatusResponse(0, FALSE, OptNone, FALSE, OptNone)}

\* least values, greatest values the wire format holds, greatest values of the
\* field types
GetCablePropertyResponses ==
    {GetCablePropertyResponse(SpeedSupported("Bps", 0), 0, FALSE, FALSE, FALSE, "TypeA",
                              FALSE, 0, 0),
     GetCablePropertyResponse(SpeedSupported("Gbps", 16383), 12750, TRUE, TRUE, TRUE,
                              "Other", TRUE, 3, 15),
     GetCablePropertyResponse(SpeedSupported("Gbps", 65535), 65535, TRUE, TRUE, TRUE,
                              "Other", TRUE, 255, 255)}

GetCapabilityResponses ==
    {GetCapabilityResponse(Zero32, 0, Zero32, 0, 0, 0, 0),
     GetCapabilityResponse(U32(65535, 0), 255, U32(511, 0), 255, 65535, 65535, 65535),
     GetCapabilityResponse(Max32, 255, Max32, 255, 65535, 65535, 65535)}

Responses ==
    {ConnectorResetResponse}
    \cup {LpmResponse("GetConnectorStatus", d) : d \in GetConnectorStatusResponses}
    \cup {LpmResponse("GetConnectorCapability", [raw32 |-> raw]) : raw \in {Zero32, Max32}}
    \cup {LpmResponse("GetErrorStatus",
                       [information |-> v * 257,
                        vendor |-> [i \in 1..MAX_VENDOR_DATA_LEN |-> v]]) :
            v \in {0, 255}}
    \cup {LpmResponse("GetAlternateModes",
                       [alt_modes |-> <<AltMode(svid, mid), AltMode(0, Zero32)>>]) :
            svid \in {0, 65535}, mid \in {Zero32, Max32}}
    \cup {LpmResponse("GetCamSupported", [alt_modes |-> v]) : v \in {0, 18, 255}}
    \cup {LpmResponse("GetCurrentCam",
                       [alt_modes |-> [i \in 1..GetCurrentCamResponseLen |-> v]]) :
            v \in {0, 255}}
    \cup {LpmResponse("GetPdos", d) : d \in GetPdosResponses}
    \cup {LpmResponse("GetCableProperty", d) : d \in GetCablePropertyResponses}
    \cup {PpmResponse("GetCapability", d) : d \in GetCapabilityResponses}

(***************************************************************************)
(* Response round trip: encode a response, decode it under its CommandType *)
(***************************************************************************)
\* ucsi::ResponseData::encode_into_slice
EncodeResponseStep ==
    LET r == ResponseEncode(response) IN
    /\ pc = "built"
    /\ response # NoResponse
    /\ wire' = IF r.ok THEN r.bytes ELSE wire
    /\ pc' = IF r.ok THEN "encoded" ELSE "panicked"
    /\ UNCHANGED <<cmd, decoded, response, context>>
    /\ UNCHANGED <<ppmVars, cciVars, runVars>>

\* decode of the bytes with the CommandType of the response as context, in a
\* build with or without overflow checks
DecodeResponseStep ==
    \E overflow_checks \in BOOLEAN :
        LET r == ResponseDecode(response.class, response.type, wire, overflow_checks) IN
        /\ pc = "encoded"
        /\ response # NoResponse
        /\ context' = response.type
        /\ decoded' = IF "panic" \in DOMAIN r THEN decoded ELSE DecodeFromSlice(r, wire)
        /\ pc' = IF "panic" \in DOMAIN r THEN "panicked" ELSE "decoded"
        /\ UNCHANGED <<cmd, wire, response>>
        /\ UNCHANGED <<ppmVars, cciVars, runVars>>

InitResponse ==
    /\ InitPpm
    /\ InitRun
    /\ InitCci
    /\ pc = "built"
    /\ cmd = NoCommand
    /\ wire = <<>>
    /\ decoded = NotDecoded
    /\ response \in Responses
    /\ context = NoContext

NextResponse == EncodeResponseStep \/ DecodeResponseStep

SpecResponse == InitResponse /\ [][NextResponse]_vars

\* C11: every response data value that is encoded and whose bytes are then
\* decoded with the CommandType of its command as context comes back equal to
\* the original.
C11_ResponseRoundTrip ==
    response # NoResponse /\ pc \in {"decoded", "panicked"}
        => pc = "decoded" /\ decoded.ok /\ decoded.value = response

(***************************************************************************)
(* Mailbox bytes received from the OPM                                     *)
(***************************************************************************)
\* a mailbox: the opcode byte, the data length byte, six bytes of arguments
Mailbox(opcode, data_len, args) == <<opcode, data_len>> \o args

\* the bytes 0..255 an opcode byte can hold
OpcodeBytes == 0..255

\* connector bytes: connector numbers 0, 1 and 127, with bit 7 clear and set
ConnectorBytes == {p + 128 * flag : p \in Ports, flag \in {0, 1}}

Mailboxes ==
    \* every opcode byte over zero arguments, and over arguments of ones
    {Mailbox(op, len, Zeros(6)) : op \in OpcodeBytes, len \in {0, 255}}
    \cup {Mailbox(op, 0, [i \in 1..6 |-> 255]) : op \in OpcodeBytes}
    \* every LPM command over every connector byte
    \cup {Mailbox(CommandTypeAsU8(t), 0, <<c>> \o Zeros(5)) :
            t \in CommandTypes \ PpmCommandTypes, c \in ConnectorBytes}
    \* SET_NEW_CAM: connector byte, then the alternate mode offset and specific
    \cup {Mailbox(CommandTypeAsU8("SetNewCam"), 0, <<c, 255, 255, 255, 255, 255>>) :
            c \in ConnectorBytes}
    \* GET_ALTERNATE_MODES: every value of the recipient field (bits 0..2), the
    \* connector number in the second byte of the arguments
    \cup {Mailbox(CommandTypeAsU8("GetAlternateModes"), 0, <<recipient, p, 0, 0, 0, 0>>) :
            recipient \in 0..7, p \in Ports}
    \* GET_PDOS: every value of the source capability type field (bits 19..20)
    \cup {Mailbox(CommandTypeAsU8("GetPdos"), 0, <<c, 0, 8 * t, 0, 0, 0>>) :
            c \in ConnectorBytes, t \in 0..3}
    \* SET_POWER_LEVEL: every value of the Type-C current field (bits 16..18)
    \cup {Mailbox(CommandTypeAsU8("SetPowerLevel"), 0, <<c, 0, current, 0, 0, 0>>) :
            c \in ConnectorBytes, current \in 0..7}
    \* slices shorter and longer than a mailbox
    \cup {SubSeq(Mailbox(CommandTypeAsU8(t), 0, Zeros(6)), 1, n) :
            t \in {"PpmReset", "AckCcCi", "GetPdos", "SetPowerLevel"}, n \in 0..7}
    \cup {Mailbox(CommandTypeAsU8(t), 0, Zeros(6)) \o <<171>> :
            t \in {"PpmReset", "AckCcCi", "GetPdos", "SetPowerLevel"}}

\* TryFrom<u8> for SourceCapabilityType admits Current, Advertised, Maximum
SourceCapabilityTypeTryFrom(value) == value \in {0, 1, 2}

\* get_alternate_modes::Args::recipient, set_power_level::Args::type_c_current,
\* get_pdos::Args::source_capability_type: try_from(..).unwrap()
SubField(operation) ==
    CASE operation.type = "GetAlternateModes" ->
            IF RecipientTryFrom(GetAlternateModesRecipient(operation.raw32))
            THEN TryOk(GetAlternateModesRecipient(operation.raw32))
            ELSE Panicked("unwrap on an Err value")
      [] operation.type = "SetPowerLevel" ->
            IF CurrentTryFrom(SetPowerLevelTypeCCurrent(operation.raw48))
            THEN TryOk(SetPowerLevelTypeCCurrent(operation.raw48))
            ELSE Panicked("unwrap on an Err value")
      [] operation.type = "GetPdos" ->
            IF SourceCapabilityTypeTryFrom(GetPdosSourceCapabilityType(operation.raw32))
            THEN TryOk(GetPdosSourceCapabilityType(operation.raw32))
            ELSE Panicked("unwrap on an Err value")

SubFieldOperations == {"GetAlternateModes", "SetPowerLevel", "GetPdos"}

\* decode_from_slice::<CommandHeader> of the received bytes
DecodeHeaderStep ==
    /\ pc = "received"
    /\ decoded' = DecodeFromSlice(CommandHeaderDecode(wire), wire)
    /\ pc' = "header"
    /\ UNCHANGED <<cmd, wire, response, context>>
    /\ UNCHANGED <<ppmVars, cciVars, runVars>>

\* ucsi::Command::decode_from_slice of the received bytes
DecodeMailboxStep ==
    /\ pc = "received"
    /\ decoded' = DecodeFromSlice(CommandDecode(wire), wire)
    /\ pc' = "decoded"
    /\ UNCHANGED <<cmd, wire, response, context>>
    /\ UNCHANGED <<ppmVars, cciVars, runVars>>

\* the handler of a decoded command reads the sub-field of its arguments
ReadSubFieldStep ==
    /\ pc = "decoded"
    /\ decoded.ok
    /\ decoded.value.class = "Lpm"
    /\ decoded.value.operation.type \in SubFieldOperations
    /\ pc' = IF SubField(decoded.value.operation).ok THEN "read" ELSE "panicked"
    /\ UNCHANGED <<cmd, wire, decoded, response, context>>
    /\ UNCHANGED <<ppmVars, cciVars, runVars>>

InitMailbox ==
    /\ InitPpm
    /\ InitRun
    /\ InitCci
    /\ pc = "received"
    /\ cmd = NoCommand
    /\ wire \in Mailboxes
    /\ decoded = NotDecoded
    /\ response = NoResponse
    /\ context = NoContext

NextMailbox == DecodeHeaderStep \/ DecodeMailboxStep \/ ReadSubFieldStep

SpecMailbox == InitMailbox /\ [][NextMailbox]_vars

\* the received mailbox holds a command whose sub-field is outside its legal set
InvalidRecipient ==
    Len(wire) >= COMMAND_LEN /\ wire[1] = CommandTypeAsU8("GetAlternateModes")
        /\ GetBits(wire[3], 0, 2) \notin {0, 1, 2, 3}

InvalidSourceCapabilityType ==
    Len(wire) >= COMMAND_LEN /\ wire[1] = CommandTypeAsU8("GetPdos")
        /\ GetBits(wire[5], 3, 4) \notin {0, 1, 2}

InvalidTypeCCurrent ==
    Len(wire) >= COMMAND_LEN /\ wire[1] = CommandTypeAsU8("SetPowerLevel")
        /\ GetBits(wire[5], 0, 2) \notin {0, 1, 2, 3}

\* the decode has returned UnexpectedVariant naming the type and its allowed values
RejectedWith(type_name, allowed) ==
    /\ pc = "decoded"
    /\ ~decoded.ok
    /\ decoded.error.kind = "UnexpectedVariant"
    /\ decoded.error.type_name = type_name
    /\ decoded.error.allowed = allowed

\* C12: a mailbox whose recipient (GET_ALTERNATE_MODES), source capability type
\* (GET_PDOS) or Type-C current (SET_POWER_LEVEL) is outside its legal set is
\* refused by the command decode with an UnexpectedVariant error that names the
\* type and its allowed values; it is never decoded to a command and no read of
\* the sub-field panics.
C12_InvalidSubFieldRejected ==
    pc \in {"decoded", "read", "panicked"} =>
        /\ InvalidRecipient => RejectedWith("Recipient", {0, 1, 2, 3})
        /\ InvalidSourceCapabilityType => RejectedWith("SourceCapabilityType", {0, 1, 2})
        /\ InvalidTypeCCurrent => RejectedWith("Current", {0, 1, 2, 3})

\* the opcodes of the opcode table: 0x01..=0x16, 0x18..=0x1F, 0x21, 0x22
TableOpcodes == (1..22) \cup (24..31) \cup {33, 34}

\* C13: the decode of a command header succeeds exactly when its low byte is an
\* opcode of the table and then yields the CommandType with that value; for
\* every other low byte it returns UnexpectedVariant; every CommandType
\* converted to u8 and back is the same CommandType.
C13_OpcodeTable ==
    /\ pc = "header" /\ Len(wire) >= CommandHeaderSize =>
          IF wire[1] \in TableOpcodes
          THEN /\ decoded.ok
               /\ CommandTypeAsU8(CommandHeaderCommand(decoded.value)) = wire[1]
          ELSE ~decoded.ok /\ decoded.error.kind = "UnexpectedVariant"
    /\ \A t \in CommandTypes :
          /\ CommandTypeTryFrom(CommandTypeAsU8(t)).ok
          /\ CommandTypeTryFrom(CommandTypeAsU8(t)).value = t

\* the header with opcode 0x22 and a data length of 255 has been decoded
C13_Witness ==
    pc = "header" /\ Len(wire) >= CommandHeaderSize /\ wire[1] = 34 /\ wire[2] = 255
        /\ decoded.ok

\* the arguments of the received mailbox are within the legal sets of their fields
ArgumentsInRange == ~InvalidRecipient /\ ~InvalidSourceCapabilityType /\ ~InvalidTypeCCurrent

\* C14: an 8-byte mailbox that carries an opcode of the opcode table and
\* in-range arguments decodes to a Command whose command_type() is that opcode.
C14_EveryOpcodeDecodes ==
    pc = "decoded" /\ Len(wire) = COMMAND_LEN /\ wire[1] \in TableOpcodes
            /\ ArgumentsInRange
        => decoded.ok /\ CommandTypeAsU8(CommandType(decoded.value)) = wire[1]


(***************************************************************************)
(* Response bytes decoded with any CommandType as context                  *)
(***************************************************************************)
\* CommandType::has_response
HasResponse(command_type) ==
    command_type \notin {"PpmReset", "Cancel", "ConnectorReset", "AckCcCi",
                         "SetNotificationEnable", "SetCcom", "SetUor", "SetPdr",
                         "SetNewCam"}

ResponseClasses == {"Ppm", "Lpm"}

\* ppm::ResponseData::decode or lpm::ResponseData::decode of the bytes with a
\* CommandType chosen by the caller, in a build with or without overflow checks
DecodeWithContextStep ==
    \E class \in ResponseClasses, command_type \in CommandTypes,
       overflow_checks \in BOOLEAN :
        LET r == ResponseDecode(class, command_type, wire, overflow_checks) IN
        /\ pc = "encoded"
        /\ context' = command_type
        /\ decoded' = IF "panic" \in DOMAIN r THEN decoded ELSE DecodeFromSlice(r, wire)
        /\ pc' = IF "panic" \in DOMAIN r THEN "panicked" ELSE "context"
        /\ UNCHANGED <<cmd, wire, response>>
        /\ UNCHANGED <<ppmVars, cciVars, runVars>>

NextContext == EncodeResponseStep \/ DecodeWithContextStep

SpecContext == InitResponse /\ [][NextContext]_vars

\* C15: has_response(t) is true exactly for the command types that have a
\* ResponseData variant: a decode of response bytes with t as context succeeds
\* only if has_response(t), and every t with has_response(t) that a caller
\* decodes with has a variant.
C15_HasResponseMatchesVariants ==
    /\ pc = "context" /\ decoded.ok => HasResponse(context)
    /\ pc = "context" /\ HasResponse(context)
          => context \in LpmResponseTypes \cup PpmResponseTypes


(***************************************************************************)
(* The connector byte of the LPM commands                                  *)
(***************************************************************************)
\* the operations that use bit 7 of the connector byte as a flag
HighBitOperations == Raw16Operations \cup {"SetNewCam", "SetPowerLevel", "GetPdos"}

\* the flag in bit 7: rp of SET_CCOM, dfp of SET_UOR, swap_source of SET_PDR,
\* enter of SET_NEW_CAM, power_role of SET_POWER_LEVEL, partner of GET_PDOS
ArgsHighBit(operation) ==
    CASE operation.type \in Raw16Operations -> GetBits(operation.raw16, 7, 7) = 1
      [] operation.type = "SetNewCam" -> operation.enter
      [] operation.type = "SetPowerLevel" -> GetBitsBytes(operation.raw48, 7, 7) = 1
      [] operation.type = "GetPdos" -> GetBits32(operation.raw32, 7, 7) = 1

\* the byte of the received mailbox that holds the connector number:
\* the second argument byte of GET_ALTERNATE_MODES, the first of every other
ConnectorField ==
    IF CommandType(decoded.value) = "GetAlternateModes" THEN wire[4] ELSE wire[3]

\* C16: the decoded connector number of an LPM command is the low 7 bits of
\* its connector field, the flag a command keeps in bit 7 is that bit alone,
\* and every connector number 0..127 comes back from the connector byte it is
\* encoded to, with the flag set or clear.
C16_ConnectorNumberMasked ==
    /\ pc = "decoded" /\ decoded.ok /\ decoded.value.class = "Lpm" =>
          /\ decoded.value.port = ConnectorField % 128
          /\ CommandType(decoded.value) \in HighBitOperations =>
                ArgsHighBit(decoded.value.operation) = (wire[3] >= 128)
    /\ \A n \in 0..127, enter \in BOOLEAN :
          LET r == SetNewCamArgsDecode(
                       SetNewCamArgsEncode(SetNewCamArgs(n, enter, 0, Zero32)))
          IN  /\ r.ok /\ r.value.connector_number = n /\ r.value.enter = enter
              /\ ConnectorNumber(EncodeU8(n)[1]) = n

C16_Witness ==
    /\ pc = "decoded" /\ decoded.ok /\ decoded.value.class = "Lpm"
    /\ CommandType(decoded.value) = "GetPdos" /\ wire[3] = 255
    /\ decoded.value.port = 127 /\ ArgsHighBit(decoded.value.operation)


\* C17: the command mailbox is 8 bytes: every command encode writes 8 bytes
\* and every command decode that succeeds consumes 8 bytes.
C17_MailboxEightBytes ==
    /\ cmd # NoCommand /\ pc \in {"encoded", "decoded"} => Len(wire) = COMMAND_LEN
    /\ cmd # NoCommand /\ pc = "decoded" /\ decoded.ok => decoded.consumed = COMMAND_LEN


(***************************************************************************)
(* GET_CONNECTOR_STATUS response buffers received from an LPM              *)
(***************************************************************************)
\* a 19-byte buffer with the connect status, the power operation mode, the
\* power reading ready flag, both scales and both readings set
StatusBuffer(connect, mode, ready, current_scale, peak, voltage_scale, voltage) ==
    LET b0 == Zeros(GetConnectorStatusResponseLen)
        b1 == SetBitsBytes(b0, 19, 19, connect)
        b2 == SetBitsBytes(b1, 16, 18, mode)
        b3 == SetBitsBytes(b2, 89, 89, ready)
        b4 == SetBitsBytes(b3, 90, 92, current_scale)
        b5 == SetBitsBytes(b4, 93, 108, peak)
        b6 == SetBitsBytes(b5, 125, 128, voltage_scale)
    IN  SetBitsBytes(b6, 129, 144, voltage)

\* every field at its least and greatest value, the buffer of ones, and
\* slices shorter and longer than the response
StatusBuffers ==
    {StatusBuffer(connect, mode, ready, current_scale, peak, voltage_scale, voltage) :
        connect \in {0, 1}, mode \in {0, 3, 7}, ready \in {0, 1},
        current_scale \in {0, 1, 7}, peak \in {0, 1872, 1873, 65535},
        voltage_scale \in {0, 1, 15}, voltage \in {0, 65535}}
    \cup {[i \in 1..n |-> 255] : n \in {0, 18, 19, 20}}

\* lpm::ResponseData::decode of the buffer with GetConnectorStatus as context, in
\* a build with or without overflow checks
DecodeStatusStep ==
    \E overflow_checks \in BOOLEAN :
        LET r == LpmResponseDecode("GetConnectorStatus", wire, overflow_checks) IN
        /\ pc = "received"
        /\ context' = "GetConnectorStatus"
        /\ decoded' = IF "panic" \in DOMAIN r THEN decoded ELSE DecodeFromSlice(r, wire)
        /\ pc' = IF "panic" \in DOMAIN r THEN "panicked" ELSE "decoded"
        /\ UNCHANGED <<cmd, wire, response>>
        /\ UNCHANGED <<ppmVars, cciVars, runVars>>

\* the decoded response data encoded again
EncodeStatusStep ==
    LET r == LpmResponseEncode(decoded.value) IN
    /\ pc = "decoded"
    /\ decoded.ok
    /\ response' = decoded.value
    /\ wire' = IF r.ok THEN r.bytes ELSE wire
    /\ pc' = IF r.ok THEN "encoded" ELSE "panicked"
    /\ UNCHANGED <<cmd, decoded, context>>
    /\ UNCHANGED <<ppmVars, cciVars, runVars>>

InitStatus ==
    /\ InitPpm
    /\ InitRun
    /\ InitCci
    /\ pc = "received"
    /\ cmd = NoCommand
    /\ wire \in StatusBuffers
    /\ decoded = NotDecoded
    /\ response = NoResponse
    /\ context = NoContext

NextStatus == DecodeStatusStep \/ EncodeStatusStep

SpecStatus == InitStatus /\ [][NextStatus]_vars

\* C18: the GET_CONNECTOR_STATUS response codec never panics: the decode of a
\* buffer returns response data or an error, every product of a power reading
\* fits 16 bits, and the encode of response data completes.
C18_StatusCodecNeverPanics ==
    /\ pc # "panicked"
    /\ pc = "decoded" /\ decoded.ok /\ decoded.value.data.power_reading.some
          => ~PowerReadingOverflows(wire)


\* the opcode bytes whose header decodes
AcceptedOpcodes == {b \in OpcodeBytes : CommandHeaderDecode(<<b, 0>>).ok}

\* C19: a header decode that fails on an unrecognized opcode returns an
\* UnexpectedVariant error whose allowed set is exactly the set of opcodes
\* that the header decode accepts.
C19_AllowedSetIsAccepted ==
    pc = "header" /\ ~decoded.ok /\ decoded.error.kind = "UnexpectedVariant"
        => decoded.error.allowed = AcceptedOpcodes


(***************************************************************************)
(* The CCI status word: CciRaw(u32) and the setters of Cci                 *)
(***************************************************************************)
\* setter calls on one Cci
MaxCciCalls == 2

CciFlags ==
    {"vendor_message", "security_req", "fw_update_req", "not_supported",
     "cancel_complete", "reset_complete", "busy", "ack_command", "error", "cmd_complete"}

CciFields == {"eom", "connector_change", "data_len"} \cup CciFlags

\* faulty variant: the connector change field starts at bit 0
CciLsbConnectorAtZero(field) ==
    CASE field = "eom" -> 0
      [] field = "connector_change" -> 0
      [] field = "data_len" -> 8
      [] field = "vendor_message" -> 16
      [] field = "security_req" -> 23
      [] field = "fw_update_req" -> 24
      [] field = "not_supported" -> 25
      [] field = "cancel_complete" -> 26
      [] field = "reset_complete" -> 27
      [] field = "busy" -> 28
      [] field = "ack_command" -> 29
      [] field = "error" -> 30
      [] field = "cmd_complete" -> 31

\* the least significant bit of a field of CciRaw
CciLsb(field) ==
    CASE field = "eom" -> 0
      [] field = "connector_change" -> 1
      [] field = "data_len" -> 8
      [] field = "vendor_message" -> 16
      [] field = "security_req" -> 23
      [] field = "fw_update_req" -> 24
      [] field = "not_supported" -> 25
      [] field = "cancel_complete" -> 26
      [] field = "reset_complete" -> 27
      [] field = "busy" -> 28
      [] field = "ack_command" -> 29
      [] field = "error" -> 30
      [] field = "cmd_complete" -> 31

\* the most significant bit of a field of CciRaw
CciMsb(field) ==
    CASE field = "connector_change" -> 7
      [] field = "data_len" -> 15
      [] OTHER -> CciLsb(field)

\* the getter of a field of CciRaw; a flag reads as 0 or 1
CciRawGet(raw, field) == GetBits32(raw, CciLsb(field), CciMsb(field))

\* the setter of a field of CciRaw
CciRawSet(raw, field, v) == SetBits32(raw, CciLsb(field), CciMsb(field), v)

\* Cci::new_cmd_complete, new_busy, new_reset_complete, new_error
CciNew(flag) == CciRawSet(CciDefault, flag, 1)

\* From<u32> for Cci: the default, the four canonical reports, and the raw
\* word of ones
CciValues ==
    {CciDefault, U32(65535, 65535)}
    \cup {CciNew(flag) : flag \in {"cmd_complete", "busy", "reset_complete", "error"}}

\* port ids handed to set_connector_change: a u8
CciPorts == {0, 127, 128}

\* lengths handed to set_data_len: a usize
CciLens == {0, 255, 300}

\* a setter call: the field and the value handed to the setter (a bool as 0 or 1)
CciCall(field, value) == [value |-> value, field |-> field]

\* a setter of Cci: the raw setter is handed the value as a u8 or a bool
CciSetStep(field, given, written) ==
    /\ pc = "idle"
    /\ Len(cciCalls) < MaxCciCalls
    /\ cci' = CciRawSet(cci, field, written)
    /\ prevCci' = cci
    /\ cciCalls' = Append(cciCalls, CciCall(field, given))
    /\ UNCHANGED <<ppmVars, codecVars, runVars>>

SetFlagStep(flag) == \E b \in BOOLEAN : CciSetStep(flag, BoolBit(b), BoolBit(b))

\* Cci::set_eom
SetEom == SetFlagStep("eom")

\* Cci::set_connector_change: port.into() is a u8
SetConnectorChange == \E port \in CciPorts : CciSetStep("connector_change", port, port)

\* Cci::set_data_len: len as u8
SetDataLen == \E len \in CciLens : CciSetStep("data_len", len, len % 256)

SetVendorMessage == SetFlagStep("vendor_message")

SetSecurityReq == SetFlagStep("security_req")

SetFwUpdateReq == SetFlagStep("fw_update_req")

SetNotSupported == SetFlagStep("not_supported")

SetCancelComplete == SetFlagStep("cancel_complete")

SetResetComplete == SetFlagStep("reset_complete")

SetBusy == SetFlagStep("busy")

SetAckCommand == SetFlagStep("ack_command")

SetError == SetFlagStep("error")

SetCmdComplete == SetFlagStep("cmd_complete")

InitCciValues ==
    /\ InitPpm
    /\ InitRun
    /\ pc = "idle"
    /\ cmd = NoCommand
    /\ wire = <<>>
    /\ decoded = NotDecoded
    /\ response = NoResponse
    /\ context = NoContext
    /\ cci \in CciValues
    /\ prevCci = cci
    /\ cciCalls = <<>>

NextCci ==
    \/ SetEom
    \/ SetConnectorChange
    \/ SetDataLen
    \/ SetVendorMessage
    \/ SetSecurityReq
    \/ SetFwUpdateReq
    \/ SetNotSupported
    \/ SetCancelComplete
    \/ SetResetComplete
    \/ SetBusy
    \/ SetAckCommand
    \/ SetError
    \/ SetCmdComplete

SpecCci == InitCciValues /\ [][NextCci]_vars

\* the last setter call made on the Cci
LastCciCall == cciCalls[Len(cciCalls)]

\* the bits the last setter call changed
ChangedBits ==
    LET now == EncodeU32(cci)
        before == EncodeU32(prevCci)
    IN  {i \in 0..31 : BitAt(now, i) # BitAt(before, i)}

\* the bits of the CCI register a field owns: bit 0 is EOM, bits 1..7 the
\* connector change, bits 8..15 the data length, bits 16..31 the status flags
OwnBits(field) ==
    CASE field = "eom" -> {0}
      [] field = "connector_change" -> 1..7
      [] field = "data_len" -> 8..15
      [] OTHER -> 16..31

\* the last setter call changed bits of its own field only, a flag one bit
OnlyOwnBitsChanged ==
    LET changed == ChangedBits IN
    /\ changed \subseteq OwnBits(LastCciCall.field)
    /\ LastCciCall.field \in CciFlags \cup {"eom"} => Cardinality(changed) <= 1

\* what the getter of the field of the last setter call returns
GetterAfterCall ==
    CASE LastCciCall.field = "eom" -> GetBits32(cci, 0, 0)
      [] LastCciCall.field = "connector_change" -> GetBits32(cci, 1, 7)
      [] LastCciCall.field = "data_len" -> GetBits32(cci, 8, 15)
      [] OTHER -> CciRawGet(cci, LastCciCall.field)

\* the number of values the field of the last setter call holds
CciFieldValues == Pow2(Cardinality(OwnBits(LastCciCall.field) \ (17..31)))

\* C20 as stated: a setter changes only the bits of its own field and the
\* getter then returns the value that was handed to the setter.
C20_SetterThenGetter ==
    cciCalls # <<>> =>
        /\ OnlyOwnBitsChanged
        /\ GetterAfterCall = LastCciCall.value

\* C20 amended: a setter changes only the bits of its own field and the
\* getter then returns the value that was handed to the setter reduced to the
\* width of the field (a port id modulo 128, a length modulo 256); it is the
\* value itself whenever the value fits the field.
C20_SetterThenGetterMasked ==
    cciCalls # <<>> =>
        /\ OnlyOwnBitsChanged
        /\ GetterAfterCall = LastCciCall.value % CciFieldValues
        /\ LastCciCall.value < CciFieldValues => GetterAfterCall = LastCciCall.value

C20_Witness ==
    /\ cciCalls # <<>>
    /\ LastCciCall = CciCall("data_len", 300)
    /\ prevCci = U32(65535, 65535)
    /\ cci = U32(65535 - 65280 + 256 * 44, 65535)


(***************************************************************************)
(* The machine observed over a run: the host hands commands, completions   *)
(* and busy line changes to consume and keeps what consume returned        *)
(***************************************************************************)
\* outputs remembered in sinceExecute (the ExecuteCommand and the first after it)
MaxSince == 3

\* the outputs from the last ExecuteCommand on: an ExecuteCommand starts the
\* record anew, every other output is added to it
SinceAfter(r) ==
    IF r.ok /\ r.output.kind = "ExecuteCommand" THEN <<r.output>>
    ELSE IF r.ok /\ r.output # None /\ sinceExecute # <<>> /\ Len(sinceExecute) < MaxSince
    THEN Append(sinceExecute, r.output)
    ELSE sinceExecute

\* NotificationEnable::is_empty
NotificationEnableIsEmpty(ne) == ne = U32(0, 0)

\* the NotificationEnable of the SetNotificationEnable command last executed
\* and acknowledged: forgotten by a reset, replaced when the ack of an executed
\* SetNotificationEnable command completes
AckedEnableAfter(r) ==
    IF r.ok /\ r.output = ResetComplete THEN NoEnable
    ELSE IF r.ok /\ r.output.kind = "AckComplete" /\ sinceExecute # <<>>
            /\ CommandType(sinceExecute[1].cmd) = "SetNotificationEnable"
    THEN sinceExecute[1].cmd.notification_enable
    ELSE ackedEnable

\* the state and the kind of input of a call of consume
CallOf(s, input) == [state |-> s, kind |-> input.kind]

\* one call of consume by the host; a change of the busy line is delivered as
\* one BusyChanged input
DeliverStep(input) ==
    LET r == Consume(state, input) IN
    /\ pc = "idle"
    /\ state' = r.next_state
    /\ prevState' = state
    /\ lastInput' = input
    /\ lastResult' = ResultOf(r)
    /\ trail' = TrailAfter(r)
    /\ sinceExecute' = SinceAfter(r)
    /\ busyLine' = IF input = BusyChanged THEN ~busyLine ELSE busyLine
    /\ ackedEnable' = AckedEnableAfter(r)
    /\ prevCall' = IF Called THEN CallOf(prevState, lastInput) ELSE NoCall
    /\ UNCHANGED <<codecVars, cciVars>>

\* the commands of a run: every PPM command, the ack with each combination of
\* its two bits, the notification set empty, of one flag and full, and LPM
\* commands without and with arguments
RunCommands ==
    {PpmReset, Cancel, GetCapability}
    \cup {AckCcCi(a) : a \in 0..3}
    \cup {SetNotificationEnable(ne) : ne \in NotificationValues}
    \cup {LpmCommandNew(0, NoArgs("GetConnectorStatus")),
          LpmCommandNew(127, SetNewCamArgs(127, TRUE, 255, U32(65535, 65535)))}

DeliverCommand == \E c \in RunCommands : DeliverStep(InputCommand(c))

DeliverCommandComplete == DeliverStep(CommandComplete)

DeliverBusyChanged == DeliverStep(BusyChanged)

NextRun == DeliverCommand \/ DeliverCommandComplete \/ DeliverBusyChanged

SpecRun == Init /\ [][NextRun]_vars

\* the outputs returned since the last ExecuteCommand hold a ResetComplete, or
\* an OpmNotifyCommandComplete with an AckComplete after it
CompletedSince(outputs) ==
    \/ \E i \in 2..Len(outputs) : outputs[i] = ResetComplete
    \/ \E i \in 2..Len(outputs), j \in 2..Len(outputs) :
          /\ i < j
          /\ outputs[i] = OpmNotifyCommandComplete
          /\ outputs[j].kind = "AckComplete"

\* C21: between any two ExecuteCommand outputs there is a ResetComplete
\* output, or an OpmNotifyCommandComplete output followed by an AckComplete
\* output: a call that returns ExecuteCommand after an earlier ExecuteCommand
\* finds one of the two among the outputs returned since.
C21_OneCommandInFlight ==
    [][(lastResult'.ok /\ lastResult'.output.kind = "ExecuteCommand"
           /\ sinceExecute # <<>>)
        => CompletedSince(sinceExecute)]_vars

\* a second command executed after the first was completed and acknowledged
C21_Witness ==
    /\ state = ProcessingCommand
    /\ lastResult.ok /\ lastResult.output.kind = "ExecuteCommand"
    /\ trail = <<<<"ExecuteCommand", "SetNotificationEnable">>,
                 <<"OpmNotifyCommandComplete", "">>, <<"AckComplete", "">>>>
    /\ sinceExecute = <<lastResult.output>>


\* C22: with the busy line deasserted at creation and every change of it
\* delivered as one BusyChanged input, the machine is in Busy(_) only while the
\* line is asserted and in Idle(_) only while it is deasserted.
C22_BusyTracksLine ==
    /\ state.kind = "Busy" => busyLine
    /\ state.kind = "Idle" => ~busyLine


\* C23: the notified flag of Idle and Busy is true exactly when the
\* SetNotificationEnable command most recently executed and acknowledged since
\* the last reset enabled at least one notification.
C23_NotifiedTracksEnable ==
    state.kind \in {"Idle", "Busy"} =>
        (state.notified
            <=> (ackedEnable # NoEnable /\ ~NotificationEnableIsEmpty(ackedEnable)))


\* the OpmNotifyCommandComplete outputs returned since the last ExecuteCommand
NotifiedCompletions ==
    {i \in 1..Len(sinceExecute) : sinceExecute[i] = OpmNotifyCommandComplete}

OutputOfTransition ==
    IF IsCommand(lastInput, "PpmReset") THEN ResetComplete
    ELSE IF state = ProcessingCommand THEN ExecuteCommand(lastInput.cmd)
    ELSE IF state = WaitForCommandCompleteAck THEN OpmNotifyCommandComplete
    ELSE IF prevState = WaitForCommandCompleteAck /\ state = Idle(TRUE)
    THEN AckComplete(lastInput.cmd.ack)
    ELSE IF prevState = Busy(TRUE) /\ lastInput = CommandComplete THEN OpmNotifyBusy
    ELSE None

\* C25: an accepted call returns one output or none, and which one is fixed
\* by the transition: ExecuteCommand with the command of the call exactly
\* when ProcessingCommand is entered, OpmNotifyCommandComplete exactly when
\* WaitForCommandCompleteAck is entered, AckComplete exactly from
\* WaitForCommandCompleteAck to Idle(true), ResetComplete exactly on
\* PpmReset, OpmNotifyBusy exactly on CommandComplete in Busy(true), and
\* nothing on every other accepted input.
C25_OutputDeterminedByTransition ==
    (Called /\ lastResult.ok) =>
        LET o == lastResult.output IN
        /\ o = OutputOfTransition
        /\ (o.kind = "ExecuteCommand") <=>
              (state = ProcessingCommand /\ prevState # ProcessingCommand)
        /\ (o.kind = "ExecuteCommand") => (lastInput.kind = "Command" /\ o.cmd = lastInput.cmd)
        /\ (o = OpmNotifyCommandComplete) <=>
              (state = WaitForCommandCompleteAck /\ prevState # WaitForCommandCompleteAck)
        /\ (o.kind = "AckComplete") <=>
              (prevState = WaitForCommandCompleteAck /\ state = Idle(TRUE))
        /\ (o = ResetComplete) <=> IsCommand(lastInput, "PpmReset")
        /\ (o = OpmNotifyBusy) <=> (prevState = Busy(TRUE) /\ lastInput = CommandComplete)

\* an accepted BusyChanged in Idle(true): a transition that returns no output
C25_Witness ==
    /\ Called /\ lastResult.ok
    /\ prevState = Idle(TRUE) /\ lastInput = BusyChanged
    /\ state = Busy(TRUE)
    /\ lastResult.output = None
    /\ Len(trail) > 0


OtherOf(s) == IF s.kind = "Idle" THEN Busy(s.notified) ELSE Idle(s.notified)

\* C26: BusyChanged keeps the notification flag and returns no output: it
\* takes Idle(n) to Busy(n) and Busy(n) to Idle(n), so after two BusyChanged
\* events in a row that started in an Idle or Busy state the machine is back
\* in the state it started in.
C26_BusyChangedKeepsFlag ==
    /\ (Called /\ lastInput = BusyChanged /\ prevState.kind \in {"Idle", "Busy"}) =>
          /\ lastResult = Ok(None)
          /\ state = OtherOf(prevState)
          /\ state.notified = prevState.notified
    /\ (Called /\ lastInput = BusyChanged /\ prevCall.kind = "BusyChanged"
           /\ prevCall.state.kind \in {"Idle", "Busy"}) =>
          /\ prevState = OtherOf(prevCall.state)
          /\ state = prevCall.state

\* two BusyChanged events in a row that started in Idle(true)
C26_Witness ==
    /\ prevCall = CallOf(Idle(TRUE), BusyChanged)
    /\ prevState = Busy(TRUE)
    /\ lastInput = BusyChanged
    /\ state = Idle(TRUE)
    /\ lastResult = Ok(None)


\* every input but the reset command
NonResetInputs == {i \in Inputs : ~IsCommand(i, "PpmReset")}

\* the states the machine can be taken to from the states of seen by calls of
\* consume with the given inputs (a refused call leaves the state)
RECURSIVE ReachableFrom(_, _)
ReachableFrom(seen, inputs) ==
    LET next == seen \cup {Consume(s, i).next_state : s \in seen, i \in inputs}
    IN  IF next = seen THEN seen ELSE ReachableFrom(next, inputs)

ReachableWithoutReset == [s \in States |-> ReachableFrom({s}, NonResetInputs)]

\* C27: the machine is never stuck: the six states are all reachable from
\* Idle(false), every state accepts some input other than PpmReset, and from
\* every state a sequence of accepted inputs without PpmReset leads to
\* Idle(true).
C27_NeverStuck ==
    /\ state \in States
    /\ \E i \in NonResetInputs : Consume(state, i).ok
    /\ Idle(TRUE) \in ReachableWithoutReset[state]
    /\ ReachableFrom({Idle(FALSE)}, Inputs) = States

\* Idle(true) reached from Idle(false) through the two states that accept the
\* fewest inputs, with no reset on the way
C27_Witness ==
    /\ state = Idle(TRUE)
    /\ prevState = WaitForCommandCompleteAck
    /\ lastResult.ok
    /\ trail = <<<<"ExecuteCommand", "SetNotificationEnable">>,
                 <<"OpmNotifyCommandComplete", "">>, <<"AckComplete", "">>>>


(***************************************************************************)
(* lpm::Command built by new, set_port and set_operation, then encoded and *)
(* decoded                                                                 *)
(***************************************************************************)
\* the operations that hold the connector number in their arguments
ConnectorOperations ==
    Raw16Operations \cup {"SetPowerLevel", "SetNewCam", "GetAlternateModes", "GetPdos"}

\* every CommandData value of the model, with every connector number in its arguments
Operations == UNION {OperationsFor(p) : p \in Ports}

\* lpm::Command::set_port: the port, and the connector number of the arguments
\* of the operations that hold one
LpmCommandSetPort(c, port) ==
    LET op == c.operation IN
    [c EXCEPT
       !.port = port,
       !.operation =
          CASE op.type \in Raw16Operations ->
                  [op EXCEPT !.raw16 = Raw16SetConnectorNumber(@, port)]
            [] op.type = "SetNewCam" -> [op EXCEPT !.connector_number = port]
            [] op.type = "SetPowerLevel" ->
                  [op EXCEPT !.raw48 = SetBitsBytes(@, 0, 6, port)]
            [] op.type = "GetAlternateModes" ->
                  [op EXCEPT !.raw32 = SetBits32(@, 8, 14, port)]
            [] op.type = "GetPdos" -> [op EXCEPT !.raw32 = SetBits32(@, 0, 6, port)]
            [] OTHER -> op]

\* lpm::Command::set_operation: the operation alone
LpmCommandSetOperation(c, operation) == [c EXCEPT !.operation = operation]

\* Command::new(port, operation)
NewStep ==
    /\ pc = "idle"
    /\ \E port \in Ports, operation \in Operations : cmd' = LpmCommandNew(port, operation)
    /\ pc' = "built"
    /\ UNCHANGED <<wire, decoded, response, context>>
    /\ UNCHANGED <<ppmVars, cciVars, runVars>>

\* cmd.set_port(port)
SetPortStep ==
    /\ pc = "built"
    /\ \E port \in Ports : cmd' = LpmCommandSetPort(cmd, port)
    /\ UNCHANGED <<pc, wire, decoded, response, context>>
    /\ UNCHANGED <<ppmVars, cciVars, runVars>>

\* cmd.set_operation(operation)
SetOperationStep ==
    /\ pc = "built"
    /\ \E operation \in Operations : cmd' = LpmCommandSetOperation(cmd, operation)
    /\ UNCHANGED <<pc, wire, decoded, response, context>>
    /\ UNCHANGED <<ppmVars, cciVars, runVars>>

InitBuilder ==
    /\ InitPpm
    /\ InitRun
    /\ InitCci
    /\ pc = "idle"
    /\ cmd = NoCommand
    /\ wire = <<>>
    /\ decoded = NotDecoded
    /\ response = NoResponse
    /\ context = NoContext

NextBuilder == NewStep \/ SetPortStep \/ SetOperationStep \/ EncodeStep \/ DecodeStep

SpecBuilder == InitBuilder /\ [][NextBuilder]_vars

\* C28: a command built by new, set_port and set_operation with ports in
\* 0..=127 has port() equal to the connector number in the arguments of the
\* operations that hold one, so the command decoded from its encoding has the
\* same port().
C28_PortMatchesArguments ==
    /\ (pc \in {"built", "encoded", "decoded"} /\ cmd.operation.type \in ConnectorOperations)
          => cmd.port = ArgsConnectorNumber(cmd.operation)
    /\ (pc = "decoded" /\ decoded.ok) => decoded.value.port = cmd.port


(***************************************************************************)
(* CommandHeader through its public API (ucsi::CommandHeader)              *)
(***************************************************************************)
\* faulty variant: the length field placed one bit too low
CommandHeaderSetDataLenShifted(raw, len) == SetBits(raw, 7, 14, len)

\* CommandHeader::set_data_len: bits 15..8
CommandHeaderSetDataLen(raw, len) == SetBits(raw, 8, 15, len)

\* CommandHeader::set_command: bits 7..0 take the discriminant
CommandHeaderSetCommand(raw, command) == SetBits(raw, 0, 7, CommandTypeAsU8(command))

\* CommandHeader::data_len
CommandHeaderDataLen(raw) == GetBits(raw, 8, 15)

\* CommandHeader::command: self.0.command().try_into().unwrap()
CommandHeaderCommandUnwrap(raw) ==
    LET r == CommandTypeTryFrom(GetBits(raw, 0, 7)) IN
    IF r.ok THEN r ELSE Panicked("called Result::unwrap() on an Err value")

\* data lengths and raw header values the calls are made with
HeaderLens == {0, 255}

\* the types stored by set_command: the ends of the runs of discriminants
HeaderCommands == {"PpmReset", "GetAttentionVdo", "GetCamCs", "ChunkingSupport", "SetUsb",
                   "GetLpmPpmInfo"}

HeaderValues == {lo + 256 * hi : lo \in {0, 1, 22, 23, 24, 32, 33, 34, 35, 255}, hi \in {0, 255}}

\* the call made last, with the header it was made on
HeaderCall(call, command, data_len, before) ==
    [command |-> command, data_len |-> data_len, before |-> before, call |-> call]

\* CommandHeader::new(command, data_len)
HeaderNewStep ==
    /\ pc = "idle"
    /\ \E command \in CommandTypes, len \in HeaderLens :
          /\ context' = CommandHeaderNew(command, len)
          /\ cmd' = HeaderCall("new", command, len, 0)
    /\ pc' = "header"
    /\ UNCHANGED <<wire, decoded, response>>
    /\ UNCHANGED <<ppmVars, cciVars, runVars>>

\* CommandHeader::try_from(value): Ok(header) or Err(InvalidCommandType), no header
HeaderTryFromStep ==
    /\ pc = "idle"
    /\ \E value \in HeaderValues :
          /\ cmd' = HeaderCall("try_from", "", 0, value)
          /\ IF CommandHeaderTryFrom(value)
             THEN context' = value /\ pc' = "header"
             ELSE UNCHANGED <<context, pc>>
    /\ UNCHANGED <<wire, decoded, response>>
    /\ UNCHANGED <<ppmVars, cciVars, runVars>>

\* CommandHeader::decode of two bytes
HeaderDecodeStep ==
    /\ pc = "idle"
    /\ \E value \in HeaderValues :
          LET r == CommandHeaderDecode(EncodeU16(value)) IN
          /\ cmd' = HeaderCall("decode", "", 0, value)
          /\ wire' = EncodeU16(value)
          /\ IF r.ok THEN context' = r.value /\ pc' = "header"
             ELSE UNCHANGED <<context, pc>>
    /\ UNCHANGED <<decoded, response>>
    /\ UNCHANGED <<ppmVars, cciVars, runVars>>

\* header.set_command(command)
HeaderSetCommandStep ==
    /\ pc = "header"
    /\ \E command \in HeaderCommands :
          /\ context' = CommandHeaderSetCommand(context, command)
          /\ cmd' = HeaderCall("set_command", command, 0, context)
    /\ UNCHANGED <<pc, wire, decoded, response>>
    /\ UNCHANGED <<ppmVars, cciVars, runVars>>

\* header.set_data_len(len)
HeaderSetDataLenStep ==
    /\ pc = "header"
    /\ \E len \in HeaderLens :
          /\ context' = CommandHeaderSetDataLen(context, len)
          /\ cmd' = HeaderCall("set_data_len", "", len, context)
    /\ UNCHANGED <<pc, wire, decoded, response>>
    /\ UNCHANGED <<ppmVars, cciVars, runVars>>

InitHeader ==
    /\ InitPpm
    /\ InitRun
    /\ InitCci
    /\ pc = "idle"
    /\ cmd = NoCommand
    /\ wire = <<>>
    /\ decoded = NotDecoded
    /\ response = NoResponse
    /\ context = NoContext

NextHeader ==
    \/ HeaderNewStep
    \/ HeaderTryFromStep
    \/ HeaderDecodeStep
    \/ HeaderSetCommandStep
    \/ HeaderSetDataLenStep

SpecHeader == InitHeader /\ [][NextHeader]_vars

\* C29: a CommandHeader made by new, try_from or decode and changed by
\* set_command and set_data_len has a valid opcode in its low byte: command()
\* does not panic and returns the type stored last, and data_len() returns the
\* length stored last while the opcode stays as it was.
C29_HeaderHoldsValidOpcode ==
    pc = "header" =>
        LET command == CommandHeaderCommandUnwrap(context)
            before == CommandHeaderCommandUnwrap(cmd.before)
        IN
        /\ command.ok
        /\ GetBits(context, 0, 7) \in {CommandTypeAsU8(t) : t \in CommandTypes}
        /\ cmd.call \in {"new", "set_command"} => command.value = cmd.command
        /\ cmd.call \in {"new", "set_data_len"} => CommandHeaderDataLen(context) = cmd.data_len
        /\ cmd.call \in {"try_from", "decode"} => context = cmd.before
        /\ cmd.call = "set_data_len" => command = before
        /\ cmd.call = "set_command" =>
              CommandHeaderDataLen(context) = CommandHeaderDataLen(cmd.before)

\* the greatest length stored in a header made by try_from whose opcode was
\* replaced: the opcode is still the one stored
C29_Witness ==
    /\ pc = "header"
    /\ cmd.call = "set_data_len" /\ cmd.data_len = 255
    /\ CommandHeaderDataLen(cmd.before) = 0
    /\ CommandHeaderCommandUnwrap(context) = [value |-> "GetLpmPpmInfo", ok |-> TRUE]
    /\ CommandHeaderDataLen(context) = 255


(***************************************************************************)
(* SET_POWER_LEVEL arguments read in physical units                        *)
(* (ucsi::lpm::set_power_level)                                            *)
(***************************************************************************)
\* pdo::MW500_UNIT, pdo::MW1000_UNIT, pdo::MV20_UNIT and pdo::MV25_UNIT
MW500_UNIT == 500

MW1000_UNIT == 1000

MV20_UNIT == 20

MV25_UNIT == 25

\* a * b in u16: a product that does not fit panics in a build with overflow
\* checks and wraps in a build without them
MulU16(a, b, overflow_checks) ==
    IF a * b < Pow2(16) THEN TryOk(a * b)
    ELSE IF overflow_checks THEN Panicked("attempt to multiply with overflow")
    ELSE TryOk((a * b) % Pow2(16))

\* ArgsRaw fields: max_power 15..8, lsb_control 19, output_voltage 41..30
SetPowerLevelRawMaxPower(raw) == GetBitsBytes(raw, 8, 15)

SetPowerLevelLsbControl(raw) == GetBitsBytes(raw, 19, 19) = 1

SetPowerLevelRawOutputVoltage(raw) == GetBitsBytes(raw, 30, 41)

\* Args::max_power
SetPowerLevelMaxPower(raw, overflow_checks) ==
    IF SetPowerLevelLsbControl(raw)
    THEN MulU16(SetPowerLevelRawMaxPower(raw), MW1000_UNIT, overflow_checks)
    ELSE MulU16(SetPowerLevelRawMaxPower(raw), MW500_UNIT, overflow_checks)

\* Args::output_voltage
SetPowerLevelOutputVoltage(raw, overflow_checks) ==
    IF SetPowerLevelLsbControl(raw)
    THEN MulU16(SetPowerLevelRawOutputVoltage(raw), MV25_UNIT, overflow_checks)
    ELSE MulU16(SetPowerLevelRawOutputVoltage(raw), MV20_UNIT, overflow_checks)

\* the six argument bytes the model decodes: the least and the greatest value
\* of both fields and the values on either side of the greatest product a u16
\* holds, both units, type-C currents that decode and one that does not
PowerLevelBytes ==
    {SetBitsBytes(SetBitsBytes(SetBitsBytes(SetBitsBytes(Zeros(6), 8, 15, p), 16, 18, c),
                               19, 19, l), 30, 41, v) :
        p \in {0, 1, 65, 66, 131, 132, 255}, c \in {0, 3, 4}, l \in {0, 1},
        v \in {0, 3, 2621, 2622, 3276, 3277, 4095}}

\* a getter called on the decoded arguments, and what the call came to
GetterCall(getter, result) == [kind |-> getter, result |-> result]

\* set_power_level::Args::decode of the six bytes
DecodePowerLevelStep ==
    /\ pc = "received"
    /\ decoded' = DecodeFromSlice(SetPowerLevelArgsDecode(wire), wire)
    /\ pc' = "decoded"
    /\ UNCHANGED <<cmd, wire, response, context>>
    /\ UNCHANGED <<ppmVars, cciVars, runVars>>

\* args.max_power(), in a build with or without overflow checks
MaxPowerStep ==
    /\ pc \in {"decoded", "read"}
    /\ decoded.ok
    /\ \E overflow_checks \in BOOLEAN :
          LET r == SetPowerLevelMaxPower(decoded.value.raw48, overflow_checks) IN
          /\ response' = GetterCall("max_power", r)
          /\ pc' = IF r.ok THEN "read" ELSE "panicked"
    /\ UNCHANGED <<cmd, wire, decoded, context>>
    /\ UNCHANGED <<ppmVars, cciVars, runVars>>

\* args.output_voltage(), in a build with or without overflow checks
OutputVoltageStep ==
    /\ pc \in {"decoded", "read"}
    /\ decoded.ok
    /\ \E overflow_checks \in BOOLEAN :
          LET r == SetPowerLevelOutputVoltage(decoded.value.raw48, overflow_checks) IN
          /\ response' = GetterCall("output_voltage", r)
          /\ pc' = IF r.ok THEN "read" ELSE "panicked"
    /\ UNCHANGED <<cmd, wire, decoded, context>>
    /\ UNCHANGED <<ppmVars, cciVars, runVars>>

InitPowerLevel ==
    /\ InitPpm
    /\ InitRun
    /\ InitCci
    /\ pc = "received"
    /\ cmd = NoCommand
    /\ wire \in PowerLevelBytes
    /\ decoded = NotDecoded
    /\ response = NoResponse
    /\ context = NoContext

NextPowerLevel == DecodePowerLevelStep \/ MaxPowerStep \/ OutputVoltageStep

SpecPowerLevel == InitPowerLevel /\ [][NextPowerLevel]_vars

\* C30: for SET_POWER_LEVEL arguments that decode, max_power() returns the
\* 8-bit field times 500 mW, or times 1000 mW with the LSB-control bit set,
\* and output_voltage() returns the 12-bit field times 20 mV, or times 25 mV
\* with the bit set; neither product overflows the u16 result.
C30_PowerArgsInUnits ==
    LET lsb == BitAt(wire, 19) = 1
        power == (wire[2]) * (IF lsb THEN 1000 ELSE 500)
        voltage == (wire[4] \div 64 + 4 * wire[5] + 1024 * (wire[6] % 4))
                      * (IF lsb THEN 25 ELSE 20)
    IN
    /\ (pc \in {"read", "panicked"} /\ response.kind = "max_power")
          => response.result = TryOk(power)
    /\ (pc \in {"read", "panicked"} /\ response.kind = "output_voltage")
          => response.result = TryOk(voltage)

====
